---- MODULE Spec2Model ----
(***************************************************************************)
(* A model of dbbridge: the SQL parameter parser (internal/core), the API  *)
(* key service and repository, the token-bucket rate limiter, and the      *)
(* query executor behind POST /api/{connectionName}/{querySlug}.           *)
(*                                                                         *)
(* Strings the program inspects character by character (SQL text, request  *)
(* paths, parameter names, JSON-looking values) are sequences of           *)
(* one-character strings.  Strings the program only passes along (error    *)
(* messages, statuses) are TLA+ strings.                                   *)
(***************************************************************************)
EXTENDS Integers, Sequences, FiniteSets, TLC

VARIABLES
    \* ---- wall clock (time.Now), in seconds
    now,
    \* ---- parser (core.SQLParser), one Parse + MapValues run
    ppc,          \* "off" | "start" | "parsed" | "bound"
    sqlText,      \* Parse's sqlText argument
    values,       \* the values map handed to Parse and then to MapValues
    parseResult,  \* *ParseResult returned by Parse
    mapped,       \* ([]interface{}, error) returned by MapValues
    \* ---- api keys (table api_keys, service.AuthService)
    apiKeys,      \* the rows of api_keys, in id order
    generated,    \* plaintext -> what GenerateApiKey was called with and returned
    revokedIds,   \* the ids of the rows Revoke has been called on
    lastOp,       \* the last AuthService / ApiKeyRepo call and what it returned
    \* ---- rate limiter (api.RateLimiter)
    rate,         \* rl.rate, in tenths of a request per minute
    burst,        \* rl.burst
    buckets,      \* rl.buckets: key -> [tokens, lastCheck]
    nextCleanup,  \* when the cleanup ticker fires next
    advances,     \* how often the clock has been advanced
    lastAllow,    \* the last Allow call and its answer
    window,       \* an observer's count of one key's admissions since window.start
    \* ---- the request being served (api.Handler, service.QueryExecutor)
    epc,          \* the step the request is at
    req,          \* the request, with what the middlewares added to its context
    call,         \* the executor call made for it: arguments, locals, (result, err)
    resp,         \* the response written
    auditLogs,    \* the rows of audit_logs, in id order
    prunes,       \* prune statements of AuditRepo.Create not yet run
    served,       \* requests accepted so far
    \* ---- library calls made outside a request
    crypt,        \* one EncryptionService.Encrypt and one Decrypt, each under its own key
    slugCall,     \* one core.Slugify call and a second one on its result
    docCall,      \* one DocHandler.GetOpenAPISpec call: the catalog read and the document
    \* ---- goroutines running at the same time on the application database
    creates,      \* AuditRepo.Create calls: call -> [pc, log, id]
    setup,        \* table users, and SetupAdmin calls: call -> [pc, count, err]
    mu            \* rl.mu: its holder, and the goroutines that take it

parserVars == <<ppc, sqlText, values, parseResult, mapped>>

keyVars == <<apiKeys, generated, revokedIds, lastOp>>

limiterVars == <<rate, burst, buckets, nextCleanup, advances, lastAllow, window>>

execVars == <<epc, req, call, resp, auditLogs, prunes, served>>

libVars == <<crypt, slugCall, docCall, creates, setup, mu>>

outsideParser == <<now, keyVars, limiterVars, execVars, libVars>>

outsideKeys == <<parserVars, limiterVars, execVars, libVars>>

outsideLimiter == <<parserVars, keyVars, execVars, libVars>>

vars == <<now, ppc, sqlText, values, parseResult, mapped,
          apiKeys, generated, revokedIds, lastOp,
          rate, burst, buckets, nextCleanup, advances, lastAllow, window,
          epc, req, call, resp, auditLogs, prunes, served,
          crypt, slugCall, docCall, creates, setup, mu>>

(***************************************************************************)
(* Strings as character sequences                                          *)
(***************************************************************************)

Digits == <<"0", "1", "2", "3", "4", "5", "6", "7", "8", "9">>

IsDigit(c) == \E d \in 1..10 : Digits[d] = c

DigitVal(c) == (CHOOSE d \in 1..10 : Digits[d] = c) - 1

\* unicode.IsSpace on the characters the inputs are built from
IsSpace(c) == c \in {" ", "\t", "\n", "\r"}

MinOf(S) == CHOOSE x \in S : \A y \in S : x <= y

MaxOf(S) == CHOOSE x \in S : \A y \in S : x >= y

\* strings.TrimSpace
TrimSpace(s) ==
    LET keep == {i \in 1..Len(s) : ~IsSpace(s[i])}
    IN  IF keep = {} THEN <<>> ELSE SubSeq(s, MinOf(keep), MaxOf(keep))

\* strings.Index for a one-character separator: 0 when absent
IndexOf(s, c) ==
    LET at == {i \in 1..Len(s) : s[i] = c}
    IN  IF at = {} THEN 0 ELSE MinOf(at)

\* strings.Contains for a one-character needle
Contains(s, c) == IndexOf(s, c) # 0

\* strings.SplitN(s, sep, 2)
SplitN2(s, sep) ==
    LET i == IndexOf(s, sep)
    IN  IF i = 0 THEN <<s>>
        ELSE <<SubSeq(s, 1, i - 1), SubSeq(s, i + 1, Len(s))>>

HasPrefix(s, p) == Len(s) >= Len(p) /\ SubSeq(s, 1, Len(p)) = p

HasSuffix(s, p) == Len(s) >= Len(p) /\ SubSeq(s, Len(s) - Len(p) + 1, Len(s)) = p

RECURSIVE Itoa(_)
\* fmt.Sprintf("%d", n) for n >= 0
Itoa(n) ==
    IF n < 10 THEN <<Digits[n + 1]>>
    ELSE Itoa(n \div 10) \o <<Digits[(n % 10) + 1]>>

RECURSIVE DigitsVal(_)
DigitsVal(s) ==
    IF s = <<>> THEN 0
    ELSE 10 * DigitsVal(SubSeq(s, 1, Len(s) - 1)) + DigitVal(s[Len(s)])

\* strconv.Atoi: an optional sign and at least one decimal digit
Atoi(s) ==
    LET signed == s # <<>> /\ s[1] \in {"+", "-"}
        body   == IF signed THEN Tail(s) ELSE s
        ok     == body # <<>> /\ \A i \in 1..Len(body) : IsDigit(body[i])
    IN  [ok |-> ok,
         v  |-> IF ~ok THEN 0
                ELSE IF signed /\ s[1] = "-" THEN 0 - DigitsVal(body)
                ELSE DigitsVal(body)]

\* strings.Join(parts, sep)
RECURSIVE Join(_, _)
Join(parts, sep) ==
    IF parts = <<>> THEN <<>>
    ELSE IF Len(parts) = 1 THEN parts[1]
    ELSE parts[1] \o sep \o Join(Tail(parts), sep)

\* number of occurrences of character c in s
Count(s, c) == Cardinality({i \in 1..Len(s) : s[i] = c})

(***************************************************************************)
(* Go values held in a map[string]interface{}                              *)
(***************************************************************************)

\* a float64 / int
NumV(n) == [kind |-> "num", n |-> n, s |-> <<>>, elems |-> <<>>]

\* a string
StrV(s) == [kind |-> "str", n |-> 0, s |-> s, elems |-> <<>>]

\* a []interface{}
SliceV(elems) == [kind |-> "slice", n |-> 0, s |-> <<>>, elems |-> elems]

\* interface{}(nil): the zero value of an unset result slot
NilV == [kind |-> "nil", n |-> 0, s |-> <<>>, elems |-> <<>>]

\* m[k] = v on a Go map
MapSet(m, k, v) == [x \in (DOMAIN m) \cup {k} |-> IF x = k THEN v ELSE m[x]]

EmptyMap == [x \in {} |-> NilV]

(***************************************************************************)
(* encoding/json.Unmarshal(text, &[]interface{}) on the texts the inputs   *)
(* hold: '[' ws elements ws ']' with elements unsigned integers without a  *)
(* leading zero, separated by ','.  Everything else these inputs can spell *)
(* is not JSON.                                                            *)
(***************************************************************************)

RECURSIVE SplitAll(_, _)
SplitAll(s, sep) ==
    LET i == IndexOf(s, sep)
    IN  IF i = 0 THEN <<s>>
        ELSE <<SubSeq(s, 1, i - 1)>> \o SplitAll(SubSeq(s, i + 1, Len(s)), sep)

IsJSONNumber(t) ==
    /\ t # <<>>
    /\ \A i \in 1..Len(t) : IsDigit(t[i])
    /\ (Len(t) > 1 => t[1] # "0")

JSONUnmarshalArray(strVal) ==
    LET Numbers(elems) ==
            IF \A i \in 1..Len(elems) : IsJSONNumber(elems[i])
            THEN [ok |-> TRUE, parsed |-> [i \in 1..Len(elems) |-> NumV(DigitsVal(elems[i]))]]
            ELSE [ok |-> FALSE, parsed |-> <<>>]
        Trimmed(items) == [i \in 1..Len(items) |-> TrimSpace(items[i])]
        Elements(inner) ==
            IF inner = <<>> THEN [ok |-> TRUE, parsed |-> <<>>]
            ELSE Numbers(Trimmed(SplitAll(inner, ",")))
    IN  IF ~(Len(strVal) >= 2 /\ strVal[1] = "[" /\ strVal[Len(strVal)] = "]")
        THEN [ok |-> FALSE, parsed |-> <<>>]
        ELSE Elements(TrimSpace(SubSeq(strVal, 2, Len(strVal) - 1)))

(***************************************************************************)
(* core.SQLParser                                                          *)
(***************************************************************************)

\* regexp \{\s*([^}]+)\s*\} tried at position i: the index of the closing
\* brace of the match starting at i, 0 when there is none
MatchAt(s, i) ==
    IF i > Len(s) \/ s[i] # "{" THEN 0
    ELSE LET closes == {j \in (i + 1)..Len(s) : s[j] = "}"}
         IN  IF closes = {} THEN 0
             ELSE IF MinOf(closes) = i + 1 THEN 0
             ELSE MinOf(closes)

RECURSIVE FindAllFrom(_, _)
\* regexp.FindAllStringIndex: the leftmost, non-overlapping matches from i on
FindAllFrom(s, i) ==
    LET From(j) == IF j = 0 THEN FindAllFrom(s, i + 1)
                   ELSE <<[from |-> i, to |-> j]>> \o FindAllFrom(s, j + 1)
    IN  IF i > Len(s) THEN <<>> ELSE From(MatchAt(s, i))

FindAll(s) == FindAllFrom(s, 1)

QMark == <<"?">>

NullText == <<"N", "U", "L", "L">>

\* the array the placeholder's value holds, if any (param_parser.go:53-75)
ArrayOf(vals, paramName) ==
    LET NoArray == [isSlice |-> FALSE, arr |-> <<>>, fromJSON |-> FALSE]
        Unmarshalled(js) == IF js.ok THEN [isSlice |-> TRUE, arr |-> js.parsed, fromJSON |-> TRUE]
                            ELSE NoArray
        FromString(strVal) ==
            IF HasPrefix(strVal, <<"[">>) /\ HasSuffix(strVal, <<"]">>)
            THEN Unmarshalled(JSONUnmarshalArray(strVal))
            ELSE NoArray
        FromValue(val) ==
            IF val.kind = "slice" THEN [isSlice |-> TRUE, arr |-> val.elems, fromJSON |-> FALSE]
            ELSE IF val.kind = "str" THEN FromString(TrimSpace(val.s))
            ELSE NoArray
    IN  IF paramName \notin DOMAIN vals THEN NoArray ELSE FromValue(vals[paramName])

\* "%s:%d"
IndexedName(paramName, i) == paramName \o <<":">> \o Itoa(i)

\* ReplaceFunc recording one name for a whole expanded sequence
ReplaceFuncOneNamePerArray(match, st) ==
    LET Emit(paramName, defaults1, a, values1) ==
            IF a.isSlice /\ Len(a.arr) = 0
            THEN [out |-> NullText, paramNames |-> st.paramNames,
                  defaults |-> defaults1, values |-> values1]
            ELSE IF a.isSlice
            THEN [out |-> Join([i \in 1..Len(a.arr) |-> QMark], <<",", " ">>),
                  paramNames |-> Append(st.paramNames, paramName),
                  defaults |-> defaults1, values |-> values1]
            ELSE [out |-> QMark, paramNames |-> Append(st.paramNames, paramName),
                  defaults |-> defaults1, values |-> values1]
        Expand(paramName, defaults1, a) ==
            Emit(paramName, defaults1, a,
                 IF a.fromJSON THEN MapSet(st.values, paramName, SliceV(a.arr))
                 ELSE st.values)
        Named(parts, paramName) ==
            Expand(paramName,
                   IF Len(parts) > 1
                   THEN MapSet(st.defaults, paramName, TrimSpace(parts[2]))
                   ELSE st.defaults,
                   ArrayOf(st.values, paramName))
        Split(parts) == Named(parts, TrimSpace(parts[1]))
    IN  Split(SplitN2(SubSeq(match, 2, Len(match) - 1), ":"))

\* the callback of ReplaceAllStringFunc applied to one match; st carries the
\* closure's captured paramNames, defaults and values
ReplaceFunc(match, st) ==
    LET Emit(paramName, defaults1, a, values1) ==
            IF a.isSlice /\ Len(a.arr) = 0
            THEN [out |-> NullText, paramNames |-> st.paramNames,
                  defaults |-> defaults1, values |-> values1]
            ELSE IF a.isSlice
            THEN [out |-> Join([i \in 1..Len(a.arr) |-> QMark], <<",", " ">>),
                  paramNames |-> st.paramNames \o
                                 [i \in 1..Len(a.arr) |-> IndexedName(paramName, i - 1)],
                  defaults |-> defaults1, values |-> values1]
            ELSE [out |-> QMark, paramNames |-> Append(st.paramNames, paramName),
                  defaults |-> defaults1, values |-> values1]
        Expand(paramName, defaults1, a) ==
            Emit(paramName, defaults1, a,
                 IF a.fromJSON THEN MapSet(st.values, paramName, SliceV(a.arr))
                 ELSE st.values)
        Named(parts, paramName) ==
            Expand(paramName,
                   IF Len(parts) > 1
                   THEN MapSet(st.defaults, paramName, TrimSpace(parts[2]))
                   ELSE st.defaults,
                   ArrayOf(st.values, paramName))
        Split(parts) == Named(parts, TrimSpace(parts[1]))
    IN  Split(SplitN2(SubSeq(match, 2, Len(match) - 1), ":"))

RECURSIVE ReplaceAll(_, _, _, _)
\* regexp.ReplaceAllStringFunc: the text between matches is copied, each match
\* is replaced by the callback's result, in textual order
ReplaceAll(s, matches, pos, st) ==
    LET Replaced(m, r) ==
            ReplaceAll(s, Tail(matches), m.to + 1,
                       [sql |-> st.sql \o SubSeq(s, pos, m.from - 1) \o r.out,
                        paramNames |-> r.paramNames,
                        defaults |-> r.defaults, values |-> r.values])
        Matched(m) == Replaced(m, ReplaceFunc(SubSeq(s, m.from, m.to), st))
    IN  IF matches = <<>>
        THEN [sql |-> st.sql \o SubSeq(s, pos, Len(s)), paramNames |-> st.paramNames,
              defaults |-> st.defaults, values |-> st.values]
        ELSE Matched(Head(matches))

\* SQLParser.Parse; the returned record also carries the values map, which
\* Parse updates in place
Parse(text, vals) ==
    LET Result(r) == [SQL |-> r.sql, ParamNames |-> r.paramNames, Defaults |-> r.defaults,
                      values |-> r.values]
    IN  Result(ReplaceAll(text, FindAll(text), 1,
                          [sql |-> <<>>, paramNames |-> <<>>,
                           defaults |-> EmptyMap, values |-> vals]))

NoErr == [kind |-> "nil", names |-> <<>>]

Err(kind) == [kind |-> kind, names |-> <<>>]

\* BindOne reading the element after the indexed one
BindOneOffByOne(name, vals, defaults) ==
    LET Plain == IF name \in DOMAIN vals THEN [ok |-> TRUE, v |-> vals[name], miss |-> <<>>]
                 ELSE IF name \in DOMAIN defaults
                 THEN [ok |-> TRUE, v |-> StrV(defaults[name]), miss |-> <<>>]
                 ELSE [ok |-> FALSE, v |-> NilV, miss |-> name]
        Indexed(realName, idx) ==
            IF realName \notin DOMAIN vals
            THEN [ok |-> FALSE, v |-> NilV, miss |-> realName]
            ELSE IF vals[realName].kind = "slice" /\ idx < Len(vals[realName].elems)
            THEN [ok |-> TRUE, v |-> vals[realName].elems[idx + 1], miss |-> <<>>]
            ELSE Plain
        Split(parts, idx) ==
            IF idx.ok THEN Indexed(parts[1], idx.v + 1) ELSE Plain
        Parts(parts) == Split(parts, Atoi(parts[2]))
    IN  IF Contains(name, ":") THEN Parts(SplitN2(name, ":")) ELSE Plain

\* one iteration of MapValues' loop for name: the value bound, or missing
BindOne(name, vals, defaults) ==
    LET Plain == IF name \in DOMAIN vals THEN [ok |-> TRUE, v |-> vals[name], miss |-> <<>>]
                 ELSE IF name \in DOMAIN defaults
                 THEN [ok |-> TRUE, v |-> StrV(defaults[name]), miss |-> <<>>]
                 ELSE [ok |-> FALSE, v |-> NilV, miss |-> name]
        Indexed(realName, idx) ==
            IF realName \notin DOMAIN vals
            THEN [ok |-> FALSE, v |-> NilV, miss |-> realName]
            ELSE IF vals[realName].kind = "slice" /\ idx < Len(vals[realName].elems)
            THEN [ok |-> TRUE, v |-> vals[realName].elems[idx + 1], miss |-> <<>>]
            ELSE Plain
        Split(parts, idx) ==
            IF idx.ok THEN Indexed(parts[1], idx.v) ELSE Plain
        Parts(parts) == Split(parts, Atoi(parts[2]))
    IN  IF Contains(name, ":") THEN Parts(SplitN2(name, ":")) ELSE Plain

\* MapValues that reports the first missing parameter only
MapValuesFirstMissing(paramNames, vals, defaults) ==
    LET Result(bound) ==
            LET Bad == {i \in 1..Len(paramNames) : ~bound[i].ok}
            IN  IF Bad # {}
                THEN [args |-> <<>>,
                      err |-> [kind |-> "missing parameters", names |-> <<bound[MinOf(Bad)].miss>>]]
                ELSE [args |-> [i \in 1..Len(paramNames) |-> bound[i].v], err |-> NoErr]
    IN  Result([i \in 1..Len(paramNames) |-> BindOne(paramNames[i], vals, defaults)])

\* MapValues that refuses a request value no placeholder names
MapValuesRejectsUnused(paramNames, vals, defaults) ==
    LET Unused == {k \in DOMAIN vals :
                      \A i \in 1..Len(paramNames) : SplitN2(paramNames[i], ":")[1] # k}
        Result(bound) ==
            IF Unused # {}
            THEN [args |-> <<>>,
                  err |-> [kind |-> "missing parameters",
                           names |-> <<CHOOSE k \in Unused : TRUE>>]]
            ELSE IF \E i \in 1..Len(paramNames) : ~bound[i].ok
            THEN [args |-> <<>>,
                  err |-> [kind |-> "missing parameters",
                           names |-> <<bound[MinOf({i \in 1..Len(paramNames) :
                                                      ~bound[i].ok})].miss>>]]
            ELSE [args |-> [i \in 1..Len(paramNames) |-> bound[i].v], err |-> NoErr]
    IN  Result([i \in 1..Len(paramNames) |-> BindOne(paramNames[i], vals, defaults)])

\* SQLParser.MapValues
MapValues(paramNames, vals, defaults) ==
    LET Result(bound) ==
            LET RECURSIVE Missing(_)
                Missing(i) ==
                    IF i > Len(paramNames) THEN <<>>
                    ELSE (IF bound[i].ok THEN <<>> ELSE <<bound[i].miss>>) \o Missing(i + 1)
            IN  IF \E i \in 1..Len(paramNames) : ~bound[i].ok
                THEN [args |-> <<>>,
                      err |-> [kind |-> "missing parameters", names |-> Missing(1)]]
                ELSE [args |-> [i \in 1..Len(paramNames) |-> bound[i].v], err |-> NoErr]
    IN  Result([i \in 1..Len(paramNames) |-> BindOne(paramNames[i], vals, defaults)])

NoParse == [SQL |-> <<>>, ParamNames |-> <<>>, Defaults |-> EmptyMap, values |-> EmptyMap]

NoMapped == [args |-> <<>>, err |-> NoErr]

ParserIdle ==
    /\ ppc = "off"
    /\ sqlText = <<>>
    /\ values = EmptyMap
    /\ parseResult = NoParse
    /\ mapped = NoMapped

\* no Encrypt / Decrypt call
NoCrypt == [pc |-> "off", k1 |-> <<>>, k2 |-> <<>>, plaintext |-> "", nonce |-> 0,
            cryptoText |-> <<>>, out |-> [plaintext |-> "", err |-> NoErr]]

\* no Slugify call
NoSlug == [pc |-> "off", s |-> <<>>, once |-> <<>>, twice |-> <<>>]

\* no GetOpenAPISpec call
NoDoc == [pc |-> "off", conns |-> <<>>, queries |-> <<>>, status |-> 0, paths |-> <<>>]

CryptIdle == crypt = NoCrypt

SlugIdle == slugCall = NoSlug

DocIdle == docCall = NoDoc

\* no Create call is running beside the request
NoCreates == << >>

\* an empty table users and no SetupAdmin call
NoSetup == [users |-> <<>>, calls |-> << >>]

\* rl.mu unlocked and no goroutine about to take it
NoMutex == [holder |-> 0, ticks |-> 0, before |-> << >>, g |-> << >>]

ConcurrentIdle == creates = NoCreates /\ setup = NoSetup /\ mu = NoMutex

LibIdle == CryptIdle /\ SlugIdle /\ DocIdle /\ ConcurrentIdle

(***************************************************************************)
(* One request at a time on its way through the server                     *)
(***************************************************************************)

\* no *ExecutionResult / no rows
NoResult == [present |-> FALSE, Columns |-> 0, Rows |-> 0]

NoReq == [kind |-> "none", method |-> "", path |-> <<>>, apiKey |-> "",
          params |-> EmptyMap, connID |-> 0, queryID |-> 0, sqlText |-> <<>>,
          ctxApiKeyID |-> 0, auditBefore |-> 0]

NoCall == [via |-> "none", entered |-> FALSE, connectionID |-> 0, queryID |-> 0, sqlText |-> <<>>,
           params |-> EmptyMap, startTime |-> 0, driver |-> "", dsn |-> <<>>,
           SQL |-> <<>>, ParamNames |-> <<>>, args |-> <<>>, opened |-> FALSE, queried |-> FALSE,
           result |-> NoResult, err |-> NoErr, auditBefore |-> 0, ctxDone |-> ""]

NoResp == [status |-> 0, err |-> NoErr]

ExecIdle ==
    /\ epc = "off"
    /\ req = NoReq
    /\ call = NoCall
    /\ resp = NoResp
    /\ auditLogs = <<>>
    /\ prunes = 0
    /\ served = 0

(***************************************************************************)
(* Rate limiter: api.RateLimiter, a token bucket per key                   *)
(***************************************************************************)

\* Rates are kept in tenths of a request per minute and tokens in units of
\* 1/TokenScale token, so that elapsed * rate (rate = ratePerMinute / 60 per
\* second) is exact: one second at one tenth per minute adds one unit.
TokenScale == 600

\* rl.cleanup = 5 * time.Minute, in seconds
CleanupEvery == 300

\* 10 * time.Minute, in seconds
StaleAfter == 600

NoBuckets == [k \in {} |-> [tokens |-> 0, lastCheck |-> 0]]

NoAllow == [key |-> "", ok |-> FALSE]

NoWindow == [open |-> FALSE, key |-> "", start |-> 0, count |-> 0]

LimiterIdle ==
    /\ rate = 0
    /\ burst = 0
    /\ buckets = NoBuckets
    /\ nextCleanup = 0
    /\ advances = 0
    /\ lastAllow = NoAllow
    /\ window = NoWindow

\* a new bucket that forgets the token of the call creating it
NewBucketFull(b, t) == [tokens |-> b * TokenScale, lastCheck |-> t]

\* the bucket a new key gets: full minus the token of this call
NewBucket(b, t) == [tokens |-> b * TokenScale - TokenScale, lastCheck |-> t]

\* a refill that forgets the capacity
RefillUncapped(bk, r, b, t) ==
    [tokens |-> bk.tokens + (t - bk.lastCheck) * r, lastCheck |-> t]

\* b.tokens += elapsed * rl.rate, capped at burst; b.lastCheck = now
Refill(bk, r, b, t) ==
    LET tokens == bk.tokens + (t - bk.lastCheck) * r
    IN  [tokens |-> IF tokens > b * TokenScale THEN b * TokenScale ELSE tokens,
         lastCheck |-> t]

\* Allow that takes a token whether the bucket holds one or not
AllowOverdraws(bs, r, b, key, t) ==
    IF key \notin DOMAIN bs
    THEN [ok |-> TRUE, buckets |-> MapSet(bs, key, NewBucket(b, t))]
    ELSE LET bk == Refill(bs[key], r, b, t)
         IN  [ok |-> bk.tokens >= TokenScale,
              buckets |-> MapSet(bs, key, [bk EXCEPT !.tokens = bk.tokens - TokenScale])]

\* Allow that forgets the refill when it denies
AllowDenialForgetsRefill(bs, r, b, key, t) ==
    IF key \notin DOMAIN bs
    THEN [ok |-> TRUE, buckets |-> MapSet(bs, key, NewBucket(b, t))]
    ELSE LET bk == Refill(bs[key], r, b, t)
         IN  IF bk.tokens >= TokenScale
             THEN [ok |-> TRUE,
                   buckets |-> MapSet(bs, key, [bk EXCEPT !.tokens = bk.tokens - TokenScale])]
             ELSE [ok |-> FALSE, buckets |-> bs]

\* RateLimiter.Allow(key) at time t: the admission and the bucket map after it
Allow(bs, r, b, key, t) ==
    IF key \notin DOMAIN bs
    THEN [ok |-> TRUE, buckets |-> MapSet(bs, key, NewBucket(b, t))]
    ELSE LET bk == Refill(bs[key], r, b, t)
         IN  IF bk.tokens >= TokenScale
             THEN [ok |-> TRUE,
                   buckets |-> MapSet(bs, key, [bk EXCEPT !.tokens = bk.tokens - TokenScale])]
             ELSE [ok |-> FALSE, buckets |-> MapSet(bs, key, bk)]

\* a pass that also drops the buckets idle for exactly ten minutes
CleanupAtTenMinutes(bs, t) ==
    LET keep == {k \in DOMAIN bs : ~(t - bs[k].lastCheck >= StaleAfter)}
    IN  [k \in keep |-> bs[k]]

\* one pass of cleanupLoop at time t
Cleanup(bs, t) ==
    LET keep == {k \in DOMAIN bs : ~(t - bs[k].lastCheck > StaleAfter)}
    IN  [k \in keep |-> bs[k]]

(***************************************************************************)
(* API keys: service.AuthService over data.ApiKeyRepo                      *)
(***************************************************************************)

\* hex(32 random bytes): the plaintexts rand.Read can produce
PlainKeys == {"k1", "k2", "k3"}

\* strings a client can present that rand.Read never produced
ForeignKeys == {"", "zz"}

\* (userID, description) of a generate request
KeyOwners == {<<1, "">>, <<2, "ci">>}

\* most rows of api_keys
MaxKeys == 2

\* latest clock value
MaxNow == 1

\* hex(sha256(key)): collision-free on the keys in use
Sha256Hex(key) == <<"sha256", key>>

\* key[:8]
KeyPrefix(key) == <<"prefix", key>>

NoTime == -1

NoRow == [id |-> 0, user_id |-> 0, key_prefix |-> <<>>, key_hash |-> <<>>,
          description |-> "", last_used_at |-> NoTime, is_active |-> FALSE]

NoOp == [op |-> "none", key |-> "", id |-> 0, err |-> "", rec |-> NoRow]

KeysIdle ==
    /\ apiKeys = <<>>
    /\ generated = [k \in {} |-> NoRow]
    /\ revokedIds = {}
    /\ lastOp = NoOp

\* the columns runMigrations creates
TableColumns ==
    [api_keys   |-> {"id", "user_id", "key_prefix", "key_hash", "created_at", "last_used_at",
                     "is_active"},
     audit_logs |-> {"id", "timestamp", "user_id", "connection_id", "query_id", "duration_ms",
                     "status", "error_message"}]

\* the columns added on startup if absent
AddedColumns ==
    [api_keys   |-> {"description"},
     audit_logs |-> {"api_key_id", "params"}]

\* the columns a statement can name once the server has started
ColumnsOf(table) == TableColumns[table] \cup AddedColumns[table]

\* the columns the INSERT of ApiKeyRepo.Create names
ApiKeyInsertColumns == {"user_id", "key_prefix", "key_hash", "description", "created_at",
                        "is_active"}

\* ApiKeyRepo.Create with the description column left out of the INSERT
ApiKeyCreateNoDescription(rows, key) ==
    Append(rows, [key EXCEPT !.id = Len(rows) + 1, !.description = "",
                             !.last_used_at = NoTime])

\* ApiKeyRepo.Create: INSERT; the new row takes the next AUTOINCREMENT id; a
\* statement naming a column the table lacks fails and stores nothing
ApiKeyCreate(rows, key) ==
    IF ApiKeyInsertColumns \subseteq ColumnsOf("api_keys")
    THEN Append(rows, [key EXCEPT !.id = Len(rows) + 1, !.last_used_at = NoTime])
    ELSE rows

\* ApiKeyRepo.GetByHash without the is_active condition
GetByHashAnyActive(rows, hash) ==
    LET hit == {i \in 1..Len(rows) : rows[i].key_hash = hash}
    IN  IF hit = {} THEN NoRow ELSE rows[MinOf(hit)]

\* ApiKeyRepo.GetByHash: WHERE key_hash = ? AND is_active = 1, first row;
\* NoRow stands for (nil, nil)
GetByHash(rows, hash) ==
    LET hit == {i \in 1..Len(rows) : rows[i].key_hash = hash /\ rows[i].is_active}
    IN  IF hit = {} THEN NoRow ELSE rows[MinOf(hit)]

\* ApiKeyRepo.Revoke: UPDATE api_keys SET is_active = 0 WHERE id = ?
ApiKeyRevoke(rows, id) ==
    [i \in 1..Len(rows) |->
        IF rows[i].id = id THEN [rows[i] EXCEPT !.is_active = FALSE] ELSE rows[i]]

\* ApiKeyRepo.UpdateLastUsed: UPDATE api_keys SET last_used_at = ? WHERE id = ?
UpdateLastUsed(rows, id, t) ==
    [i \in 1..Len(rows) |->
        IF rows[i].id = id THEN [rows[i] EXCEPT !.last_used_at = t] ELSE rows[i]]

\* AuthService.GenerateApiKey(userID, description); rand.Read yields a key
\* never produced before
GenerateApiKey ==
    /\ Len(apiKeys) < MaxKeys
    /\ \E key \in PlainKeys \ DOMAIN generated, owner \in KeyOwners :
          LET apiKey == [id |-> 0, user_id |-> owner[1], key_prefix |-> KeyPrefix(key),
                         key_hash |-> Sha256Hex(key), description |-> owner[2],
                         last_used_at |-> NoTime, is_active |-> TRUE]
              rows1  == ApiKeyCreate(apiKeys, apiKey)
          IN  IF Len(rows1) = Len(apiKeys)
              THEN /\ lastOp' = [op |-> "generate", key |-> "", id |-> 0,
                                 err |-> "create failed", rec |-> NoRow]
                   /\ UNCHANGED <<apiKeys, generated>>
              ELSE /\ apiKeys' = rows1
                   /\ generated' = MapSet(generated, key,
                                          [apiKey EXCEPT !.id = rows1[Len(rows1)].id])
                   /\ lastOp' = [op |-> "generate", key |-> key, id |-> rows1[Len(rows1)].id,
                                 err |-> "", rec |-> rows1[Len(rows1)]]
    /\ UNCHANGED <<revokedIds, now, outsideKeys>>

\* AuthService.VerifyApiKey(plainKey)
VerifyApiKey ==
    /\ \E plainKey \in PlainKeys \cup ForeignKeys :
          LET apiKey == GetByHash(apiKeys, Sha256Hex(plainKey))
          IN  IF apiKey = NoRow
              THEN /\ lastOp' = [op |-> "verify", key |-> plainKey, id |-> 0,
                                 err |-> "invalid api key", rec |-> NoRow]
                   /\ UNCHANGED apiKeys
              ELSE /\ apiKeys' = UpdateLastUsed(apiKeys, apiKey.id, now)
                   /\ lastOp' = [op |-> "verify", key |-> plainKey, id |-> apiKey.id,
                                 err |-> "", rec |-> apiKey]
    /\ UNCHANGED <<generated, revokedIds, now, outsideKeys>>

\* WebHandler.HandleRevokeApiKey -> ApiKeyRepo.Revoke(id)
Revoke ==
    /\ \E id \in 1..(MaxKeys + 1) :
          /\ apiKeys' = ApiKeyRevoke(apiKeys, id)
          /\ revokedIds' = revokedIds \cup {i \in {id} : \E r \in 1..Len(apiKeys) : apiKeys[r].id = i}
          /\ lastOp' = [op |-> "revoke", key |-> "", id |-> id, err |-> "", rec |-> NoRow]
    /\ UNCHANGED <<generated, now, outsideKeys>>

\* time passes
KeysTick ==
    /\ now < MaxNow
    /\ now' = now + 1
    /\ UNCHANGED <<keyVars, outsideKeys>>

KeysInit ==
    /\ now = 0
    /\ ExecIdle
    /\ ParserIdle
    /\ LibIdle
    /\ LimiterIdle
    /\ KeysIdle

KeysNext == GenerateApiKey \/ VerifyApiKey \/ Revoke \/ KeysTick

SpecKeys == KeysInit /\ [][KeysNext]_vars

(***************************************************************************)
(* Claims about API keys                                                   *)
(***************************************************************************)

\* C7: verifying the plaintext returned by GenerateApiKey(u, d) returns a key
\* record with user_id = u and description = d; verifying any string that is
\* not the plaintext of a stored active key fails with "invalid api key".
C7_VerifyAfterGenerate ==
    lastOp.op = "verify" =>
        LET k      == lastOp.key
            stored == /\ k \in DOMAIN generated
                      /\ \E i \in 1..Len(apiKeys) :
                            apiKeys[i].id = generated[k].id /\ apiKeys[i].is_active
        IN  IF stored
            THEN /\ lastOp.err = ""
                 /\ lastOp.rec.id = generated[k].id
                 /\ lastOp.rec.user_id = generated[k].user_id
                 /\ lastOp.rec.description = generated[k].description
            ELSE /\ lastOp.err = "invalid api key"
                 /\ lastOp.rec = NoRow

\* a key generated for user 2 with description "ci", as the second row, verified
C7_Witness ==
    /\ lastOp.op = "verify"
    /\ lastOp.err = ""
    /\ lastOp.rec.id = 2
    /\ lastOp.rec.user_id = 2
    /\ lastOp.rec.description = "ci"

\* the plaintext of the row with this id, as GenerateApiKey returned it
PlaintextsOf(id) == {k \in DOMAIN generated : generated[k].id = id}

\* C8: once Revoke(id) has been called, every later VerifyApiKey of that key's
\* plaintext fails, whatever generate, verify and revoke calls follow (no step
\* makes a revoked hash match again), and a Revoke step leaves the lookup
\* result of every other key as it was, up to the last-used time.
C8_RevokedNeverMatches ==
    [][ /\ \A id \in revokedIds' : \A k \in PlaintextsOf(id)' :
              /\ GetByHash(apiKeys', Sha256Hex(k)) = NoRow
              /\ (lastOp'.op = "verify" /\ lastOp'.key = k)
                    => lastOp'.err = "invalid api key"
        /\ lastOp'.op = "revoke" =>
              \A k \in DOMAIN generated :
                  generated[k].id # lastOp'.id =>
                      GetByHash(apiKeys', Sha256Hex(k)) = GetByHash(apiKeys, Sha256Hex(k))
      ]_vars

\* two keys, the first revoked and then presented, the second still valid
C8_Witness ==
    /\ Len(apiKeys) = 2
    /\ 1 \in revokedIds
    /\ lastOp.op = "verify"
    /\ lastOp.key \in PlaintextsOf(1)
    /\ lastOp.err = "invalid api key"
    /\ apiKeys[1].last_used_at # NoTime
    /\ apiKeys[2].is_active


(***************************************************************************)
(* Inputs of a parser run                                                  *)
(***************************************************************************)

\* the texts a statement is assembled from
SQLFragments ==
    { <<"I", "N", " ", "(">>,
      <<")">>,
      <<"?">>,
      <<"{", "i", "d", "s", "}">>,
      <<"{", " ", "i", "d", "s", " ", "}">>,
      <<"{", "a", "}">>,
      <<"{", "a", ":", "d", "}">>,
      <<"{">>,
      <<"{", "}">>,
      <<"{", "-", "}">> }

\* longest statement, in fragments
MaxParts == 3

RECURSIVE Concat(_)
Concat(parts) == IF parts = <<>> THEN <<>> ELSE Head(parts) \o Concat(Tail(parts))

SQLTexts ==
    {Concat(parts) : parts \in UNION {[1..n -> SQLFragments] : n \in 1..MaxParts}}

NameIds == <<"i", "d", "s">>

NameA == <<"a">>

\* what a request body can hold under "ids"
IdsValues ==
    { SliceV(<<>>),
      SliceV(<<StrV(<<"a">>), StrV(<<"b">>), StrV(<<"c">>)>>),
      StrV(<<"[", "1", ",", "2", "]">>),
      StrV(<<" ", "[", "7", "]">>),
      StrV(<<"[", "]">>),
      StrV(<<"[", "x", "]">>),
      NumV(5) }

\* what a request body can hold under "a"
AValues == { StrV(<<"v">>) }

ValueMaps ==
    LET withIds == {EmptyMap} \cup {MapSet(EmptyMap, NameIds, v) : v \in IdsValues}
    IN  withIds \cup {MapSet(m, NameA, v) : m \in withIds, v \in AValues}

ParserInit ==
    /\ now = 0
    /\ ExecIdle
    /\ KeysIdle
    /\ LimiterIdle
    /\ LibIdle
    /\ ppc = "start"
    /\ sqlText \in SQLTexts
    /\ values \in ValueMaps
    /\ parseResult = NoParse
    /\ mapped = NoMapped

\* parseResult := p.Parse(sqlText, values); values is updated in place
DoParse ==
    /\ ppc = "start"
    /\ parseResult' = Parse(sqlText, values)
    /\ ppc' = "parsed"
    /\ UNCHANGED <<sqlText, values, mapped, outsideParser>>

\* args, err := p.MapValues(parseResult.ParamNames, values, parseResult.Defaults)
DoMapValues ==
    /\ ppc = "parsed"
    /\ mapped' = MapValues(parseResult.ParamNames, parseResult.values, parseResult.Defaults)
    /\ ppc' = "bound"
    /\ UNCHANGED <<sqlText, values, parseResult, outsideParser>>

ParserNext == DoParse \/ DoMapValues

SpecParser == ParserInit /\ [][ParserNext]_vars

(***************************************************************************)
(* Claims about the parser                                                 *)
(***************************************************************************)

\* the name written in the k-th placeholder of text, surrounding blanks dropped
PlaceholderName(text, k) ==
    LET m == FindAll(text)[k]
    IN  TrimSpace(SplitN2(SubSeq(text, m.from + 1, m.to - 1), ":")[1])

\* the sequence a request value denotes: a sequence itself, or a string that
\* parses as a JSON array
SequenceOf(vals, name) ==
    IF name \notin DOMAIN vals THEN [isSeq |-> FALSE, elems |-> <<>>]
    ELSE IF vals[name].kind = "slice" THEN [isSeq |-> TRUE, elems |-> vals[name].elems]
    ELSE IF vals[name].kind = "str" /\ JSONUnmarshalArray(TrimSpace(vals[name].s)).ok
    THEN [isSeq |-> TRUE, elems |-> JSONUnmarshalArray(TrimSpace(vals[name].s)).parsed]
    ELSE [isSeq |-> FALSE, elems |-> <<>>]

\* how many '?' the k-th placeholder stands for
Width(text, vals, k) ==
    LET sq == SequenceOf(vals, PlaceholderName(text, k))
    IN  IF sq.isSeq THEN Len(sq.elems) ELSE 1

RECURSIVE OffsetOf(_, _, _)
\* how many '?' the placeholders before the k-th stand for
OffsetOf(text, vals, k) ==
    IF k <= 1 THEN 0
    ELSE OffsetOf(text, vals, k - 1) + Width(text, vals, k - 1)

\* the '?' characters of text that lie outside every placeholder
LiteralQMarks(text) ==
    Cardinality({i \in 1..Len(text) :
                    /\ text[i] = "?"
                    /\ \A k \in 1..Len(FindAll(text)) :
                          i < FindAll(text)[k].from \/ i > FindAll(text)[k].to})

EmittedQMarks == Count(parseResult.SQL, "?") - LiteralQMarks(sqlText)

\* what the k-th placeholder is rewritten to
ExpectedReplacement(text, vals, k) ==
    LET sq == SequenceOf(vals, PlaceholderName(text, k))
    IN  IF sq.isSeq /\ sq.elems = <<>> THEN <<"N", "U", "L", "L">>
        ELSE IF sq.isSeq
        THEN Join([i \in 1..Len(sq.elems) |-> <<"?">>], <<",", " ">>)
        ELSE <<"?">>

RECURSIVE ExpectedSQLFrom(_, _, _, _)
ExpectedSQLFrom(text, vals, k, pos) ==
    IF k > Len(FindAll(text)) THEN SubSeq(text, pos, Len(text))
    ELSE SubSeq(text, pos, FindAll(text)[k].from - 1)
         \o ExpectedReplacement(text, vals, k)
         \o ExpectedSQLFrom(text, vals, k + 1, FindAll(text)[k].to + 1)

ExpectedSQL(text, vals) == ExpectedSQLFrom(text, vals, 1, 1)

\* C9: ParamNames has as many entries as Parse emitted '?' tokens into the
\* rewritten SQL, and the i-th entry belongs to the placeholder that the i-th
\* emitted '?' was written for, in textual order (name, or name:index for the
\* index-th element of an expanded sequence).
C9_ParamNamesMatchEmittedPlaceholders ==
    ppc \in {"parsed", "bound"} =>
        /\ Len(parseResult.ParamNames) = EmittedQMarks
        /\ \A k \in 1..Len(FindAll(sqlText)) :
              /\ OffsetOf(sqlText, values, k) + Width(sqlText, values, k)
                    <= Len(parseResult.ParamNames)
              /\ \A j \in 1..Width(sqlText, values, k) :
                    parseResult.ParamNames[OffsetOf(sqlText, values, k) + j] =
                        IF SequenceOf(values, PlaceholderName(sqlText, k)).isSeq
                        THEN PlaceholderName(sqlText, k) \o <<":">> \o Itoa(j - 1)
                        ELSE PlaceholderName(sqlText, k)

\* a literal '?', then an expanded three-element sequence, then a scalar
C9_Witness ==
    /\ ppc = "parsed"
    /\ sqlText = <<"?", "{", "i", "d", "s", "}", "{", "a", "}">>
    /\ NameIds \in DOMAIN values
    /\ values[NameIds].kind = "slice"
    /\ Len(parseResult.ParamNames) = 4
    /\ Count(parseResult.SQL, "?") = 5

InIds == <<"I", "N", " ", "(", "{", "i", "d", "s", "}", ")">>

ABC == <<StrV(<<"a">>), StrV(<<"b">>), StrV(<<"c">>)>>

\* C10: a placeholder whose value is a sequence of length L >= 1 (or a string
\* that parses as a JSON array of length L) is rewritten to L comma-separated
\* '?' and MapValues binds the L elements in sequence order; an empty sequence
\* is rewritten to NULL, adds nothing to ParamNames and binds no argument.
\* IN ({ids}) with [a,b,c] gives IN (?, ?, ?) and args [a,b,c].
C10_ArrayExpansion ==
    /\ ppc \in {"parsed", "bound"} =>
          /\ parseResult.SQL = ExpectedSQL(sqlText, values)
          /\ Len(parseResult.ParamNames) =
                OffsetOf(sqlText, values, Len(FindAll(sqlText)) + 1)
    /\ (ppc = "bound" /\ mapped.err = NoErr) =>
          /\ Len(mapped.args) = OffsetOf(sqlText, values, Len(FindAll(sqlText)) + 1)
          /\ \A k \in 1..Len(FindAll(sqlText)) :
                LET sq == SequenceOf(values, PlaceholderName(sqlText, k))
                IN  sq.isSeq =>
                       \A j \in 1..Len(sq.elems) :
                          mapped.args[OffsetOf(sqlText, values, k) + j] = sq.elems[j]
    /\ (ppc = "bound" /\ sqlText = InIds /\ NameIds \in DOMAIN values) =>
          /\ values[NameIds] = SliceV(ABC) =>
                /\ parseResult.SQL =
                      <<"I", "N", " ", "(", "?", ",", " ", "?", ",", " ", "?", ")">>
                /\ mapped.args = ABC
          /\ values[NameIds] = SliceV(<<>>) =>
                /\ parseResult.SQL = <<"I", "N", " ", "(", "N", "U", "L", "L", ")">>
                /\ parseResult.ParamNames = <<>>
                /\ mapped.args = <<>>
                /\ mapped.err = NoErr

\* IN ({ids}) run with ids = [a, b, c]
C10_Witness ==
    /\ ppc = "bound"
    /\ sqlText = InIds
    /\ NameIds \in DOMAIN values
    /\ values[NameIds] = SliceV(ABC)
    /\ mapped.err = NoErr
    /\ Len(mapped.args) = 3

\* a name Parse wrote for one element of a sequence
IsIndexedName(name) == Contains(name, ":")

\* the names of a run that have neither a value nor a default
Unbound ==
    {parseResult.ParamNames[i] : i \in
        {j \in 1..Len(parseResult.ParamNames) :
            /\ ~IsIndexedName(parseResult.ParamNames[j])
            /\ parseResult.ParamNames[j] \notin DOMAIN parseResult.values
            /\ parseResult.ParamNames[j] \notin DOMAIN parseResult.Defaults}}

\* C11: MapValues returns the arguments in the order of ParamNames, each
\* non-indexed name bound to values[name] when present and to defaults[name]
\* otherwise; when some name has neither, it fails with the missing-parameters
\* error naming exactly those names and returns no arguments.
C11_MapValuesBinding ==
    ppc = "bound" =>
        IF Unbound = {}
        THEN /\ mapped.err = NoErr
             /\ Len(mapped.args) = Len(parseResult.ParamNames)
             /\ \A i \in 1..Len(parseResult.ParamNames) :
                    ~IsIndexedName(parseResult.ParamNames[i]) =>
                        mapped.args[i] =
                            IF parseResult.ParamNames[i] \in DOMAIN parseResult.values
                            THEN parseResult.values[parseResult.ParamNames[i]]
                            ELSE StrV(parseResult.Defaults[parseResult.ParamNames[i]])
        ELSE /\ mapped.err.kind = "missing parameters"
             /\ {mapped.err.names[i] : i \in 1..Len(mapped.err.names)} = Unbound
             /\ mapped.args = <<>>

\* {a:d} run with an empty request body: the default is bound
C11_Witness ==
    /\ ppc = "bound"
    /\ sqlText = <<"{", "a", ":", "d", "}">>
    /\ values = EmptyMap
    /\ mapped = [args |-> <<StrV(<<"d">>)>>, err |-> NoErr]

(***************************************************************************)
(* The rate limiter on its own: Allow calls, the cleanup goroutine, time   *)
(***************************************************************************)

\* NewRateLimiter(ratePerMinute, burst), the rate in tenths per minute: the
\* login limiter (5, 3), the api limiter (60, 10), a slow limiter (0.1, 3)
\* and a limiter without burst (60, 0)
LimiterConfigs == {<<50, 3>>, <<600, 10>>, <<1, 3>>, <<600, 0>>, <<0, 1>>}

\* X-API-Key values and client addresses
LimiterKeys == {"k1", "ip"}

\* the key whose admissions are counted
ObservedKeys == {"k1"}

\* seconds that can pass between two calls
AdvanceSteps == {1, 600}

\* most clock advances in one run
MaxAdvances == 2

LimiterInit ==
    /\ now = 0
    /\ ExecIdle
    /\ ParserIdle
    /\ LibIdle
    /\ KeysIdle
    /\ \E c \in LimiterConfigs : rate = c[1] /\ burst = c[2]
    /\ buckets = NoBuckets
    /\ nextCleanup = CleanupEvery
    /\ advances = 0
    /\ lastAllow = NoAllow
    /\ window = NoWindow

\* rl.Allow(key)
DoAllow ==
    /\ \E key \in LimiterKeys :
          LET res == Allow(buckets, rate, burst, key, now)
          IN  /\ buckets' = res.buckets
              /\ lastAllow' = [key |-> key, ok |-> res.ok]
              /\ window' = IF window.open /\ window.key = key /\ res.ok
                           THEN [window EXCEPT !.count = window.count + 1]
                           ELSE window
    /\ UNCHANGED <<rate, burst, nextCleanup, advances, now, outsideLimiter>>

\* cleanupLoop: the ticker fires every CleanupEvery seconds, the pass runs
\* once the tick is due
DoCleanup ==
    /\ now >= nextCleanup
    /\ buckets' = Cleanup(buckets, now)
    /\ nextCleanup' = nextCleanup + CleanupEvery
    /\ UNCHANGED <<rate, burst, advances, lastAllow, window, now, outsideLimiter>>

\* time passes
Advance ==
    /\ advances < MaxAdvances
    /\ \E d \in AdvanceSteps : now' = now + d
    /\ advances' = advances + 1
    /\ UNCHANGED <<rate, burst, buckets, nextCleanup, lastAllow, window, outsideLimiter>>

\* an observer starts counting the admissions of the observed key from now on
ObserveWindow ==
    /\ ~window.open
    /\ \E key \in ObservedKeys :
          window' = [open |-> TRUE, key |-> key, start |-> now, count |-> 0]
    /\ UNCHANGED <<rate, burst, buckets, nextCleanup, advances, lastAllow, now, outsideLimiter>>

LimiterNext == DoAllow \/ DoCleanup \/ Advance \/ ObserveWindow

SpecLimiter == LimiterInit /\ [][LimiterNext]_vars

\* ceil(r * delta / 60) for r in tenths per minute
CeilRefill(r, delta) == (r * delta + TokenScale - 1) \div TokenScale

WindowBound == burst + CeilRefill(rate, now - window.start)

\* C6 as stated: for every rate and burst, the admissions of one key inside a
\* window are at most burst + ceil(rate * length / 60).  The cleanup pass
\* forgets a bucket idle for more than 10 minutes and the key then starts
\* again with a full bucket, whatever the rate.
C6_WindowBoundAnyLimiter == window.open => window.count <= WindowBound

\* C6, amended: with burst >= 1 and 10 * rate >= burst (ten idle minutes
\* refill a whole bucket), the admissions of one key inside any window of
\* delta seconds are at most burst + ceil(rate * delta / 60), over any
\* sequence of Allow calls and cleanup passes.
C6_WindowBound ==
    (burst >= 1 /\ rate >= burst /\ window.open) => window.count <= WindowBound

\* a window that began on a full bucket and has admitted a refilled token too:
\* the bound is met exactly
C6_Witness ==
    /\ burst >= 1 /\ rate >= burst
    /\ window.open /\ now > window.start
    /\ window.count = WindowBound /\ window.count > burst
    /\ lastAllow.ok /\ lastAllow.key = window.key

(***************************************************************************)
(* QueryExecutor.processSystemVariables: the {pagination} rewrite          *)
(***************************************************************************)

PaginationWord == <<"p", "a", "g", "i", "n", "a", "t", "i", "o", "n">>

\* (?i): a pattern letter matches itself and its capital
Capital == [c \in {"p", "a", "g", "i", "n", "t", "o"} |->
              CASE c = "p" -> "P" [] c = "a" -> "A" [] c = "g" -> "G" [] c = "i" -> "I"
                [] c = "n" -> "N" [] c = "t" -> "T" [] c = "o" -> "O"]

\* the index after the longest run of \s from i on
SkipSpaces(s, i) ==
    LET stops == {j \in i..Len(s) : ~IsSpace(s[j])}
    IN  IF stops = {} THEN Len(s) + 1 ELSE MinOf(stops)

\* the index after the longest run of \d from i on
SkipDigits(s, i) ==
    LET stops == {j \in i..Len(s) : ~IsDigit(s[j])}
    IN  IF stops = {} THEN Len(s) + 1 ELSE MinOf(stops)

At(s, i) == IF i >= 1 /\ i <= Len(s) THEN s[i] ELSE ""

NoPagination == [to |-> 0, page |-> <<>>, limit |-> <<>>]

\* (?i)\{\s*pagination(?::\s*(\d*)\s*:\s*(\d*)\s*)?\} anchored at i: the index
\* of the closing brace (0: no match) and the two submatches
MatchPaginationAt(s, i) ==
    LET Closed(a, b, d, f, g) ==
            IF At(s, g) = "}"
            THEN [to |-> g, page |-> SubSeq(s, a, b - 1), limit |-> SubSeq(s, d, f - 1)]
            ELSE NoPagination
        Limit(a, b, d, f) == Closed(a, b, d, f, SkipSpaces(s, f))
        Colon(a, b, c) ==
            IF At(s, c) = ":" THEN Limit(a, b, SkipSpaces(s, c + 1),
                                         SkipDigits(s, SkipSpaces(s, c + 1)))
            ELSE NoPagination
        Page(a) == Colon(a, SkipDigits(s, a), SkipSpaces(s, SkipDigits(s, a)))
        Word(w, e) ==
            IF ~(\A k \in 1..Len(PaginationWord) :
                    At(s, w + k - 1) \in {PaginationWord[k], Capital[PaginationWord[k]]})
            THEN NoPagination
            ELSE IF At(s, e) = ":" THEN Page(SkipSpaces(s, e + 1))
            ELSE IF At(s, e) = "}" THEN [to |-> e, page |-> <<>>, limit |-> <<>>]
            ELSE NoPagination
        Open(w) == Word(w, w + Len(PaginationWord))
    IN  IF At(s, i) # "{" THEN NoPagination ELSE Open(SkipSpaces(s, i + 1))

\* re.FindStringIndex: where the leftmost match starts (0: none)
FindPagination(s) ==
    LET First(at) == IF at = {} THEN 0 ELSE MinOf(at)
    IN  First({i \in 1..Len(s) : MatchPaginationAt(s, i).to # 0})

\* the override that accepts numbers only
OverrideFromNumbersOnly(params, name, current) ==
    LET From(p) == IF p.kind = "num" THEN p.n ELSE current
    IN  IF name \notin DOMAIN params THEN current ELSE From(params[name])

\* params["_page"] / params["_limit"] over the token's default
OverrideFrom(params, name, current) ==
    LET Parsed(v) == IF v.ok THEN v.v ELSE current
        From(p) == IF p.kind = "num" THEN p.n
                   ELSE IF p.kind = "str" THEN Parsed(Atoi(p.s))
                   ELSE current
    IN  IF name \notin DOMAIN params THEN current ELSE From(params[name])

\* the clause with the two numbers of the mysql form exchanged
PaginationClauseMysqlLimitFirst(driver, limit, offset) ==
    IF driver = "mysql"
    THEN <<"L", "I", "M", "I", "T", " ">> \o Itoa(limit) \o <<",", " ">> \o Itoa(offset)
    ELSE IF driver \in {"odbc", "mssql"}
    THEN <<"T", "O", "P", " ">> \o Itoa(limit)
         \o <<" ", "S", "T", "A", "R", "T", " ", "A", "T", " ">> \o Itoa(offset + 1)
    ELSE <<"L", "I", "M", "I", "T", " ">> \o Itoa(limit)
         \o <<" ", "O", "F", "F", "S", "E", "T", " ">> \o Itoa(offset)

\* the clause of one driver for (limit, offset)
PaginationClause(driver, limit, offset) ==
    IF driver = "mysql"
    THEN <<"L", "I", "M", "I", "T", " ">> \o Itoa(offset) \o <<",", " ">> \o Itoa(limit)
    ELSE IF driver \in {"odbc", "mssql"}
    THEN <<"T", "O", "P", " ">> \o Itoa(limit)
         \o <<" ", "S", "T", "A", "R", "T", " ", "A", "T", " ">> \o Itoa(offset + 1)
    ELSE <<"L", "I", "M", "I", "T", " ">> \o Itoa(limit)
         \o <<" ", "O", "F", "F", "S", "E", "T", " ">> \o Itoa(offset)

DefaultPage == 1

DefaultLimit == 50

\* the (page, limit) of one rewrite: global defaults, the token's defaults
\* when they are positive numbers, then _page / _limit of the request, and the
\* clamp to at least 1
EffectivePagination(params, match) ==
    LET TokenDefault(v, global) == IF v.ok /\ v.v > 0 THEN v.v ELSE global
        AtLeastOne(n) == IF n < 1 THEN 1 ELSE n
    IN  [page  |-> AtLeastOne(OverrideFrom(params, <<"_", "p", "a", "g", "e">>,
                                           TokenDefault(Atoi(match.page), DefaultPage))),
         limit |-> AtLeastOne(OverrideFrom(params, <<"_", "l", "i", "m", "i", "t">>,
                                           TokenDefault(Atoi(match.limit), DefaultLimit)))]

processSystemVariables(text, driver, params) ==
    LET Replace(from, to, eff) ==
            SubSeq(text, 1, from - 1)
            \o PaginationClause(driver, eff.limit, (eff.page - 1) * eff.limit)
            \o SubSeq(text, to + 1, Len(text))
        Matched(from, match) == Replace(from, match.to, EffectivePagination(params, match))
        Found(from) == IF from = 0 THEN text ELSE Matched(from, MatchPaginationAt(text, from))
    IN  Found(FindPagination(text))

(***************************************************************************)
(* The catalog the requests run against, and the services around it        *)
(***************************************************************************)

\* the AES-256 key length NewEncryptionService asks for
KeyLen == 32

\* cfg.DbBridgeKey, the key string the server is started with
MasterKey == [i \in 1..KeyLen |-> "K"]

\* NewEncryptionService: the service holds the first KeyLen bytes of keyStr
NewEncryptionService(keyStr) ==
    IF Len(keyStr) < KeyLen
    THEN [key |-> <<>>, err |-> Err("key must be at least 32 characters")]
    ELSE [key |-> SubSeq(keyStr, 1, KeyLen), err |-> NoErr]

\* aesGCM.Seal(nonce, nonce, plaintext, nil): the nonce, followed by the
\* plaintext sealed and authenticated under (key, nonce)
Seal(key, nonce, plaintext) == [nonce |-> nonce, box |-> <<key, nonce, plaintext>>]

\* base64.StdEncoding.EncodeToString
EncodeToString(data) == <<"base64", data>>

\* base64.StdEncoding.DecodeString
DecodeString(text) ==
    IF Len(text) = 2 /\ text[1] = "base64"
    THEN [data |-> text[2], err |-> NoErr]
    ELSE [data |-> [nonce |-> 0, box |-> <<>>], err |-> Err("illegal base64 data")]

\* EncryptionService.Encrypt under the service's key, with the nonce read
\* from crypto/rand
Encrypt(s, plaintext, nonce) == EncodeToString(Seal(s.key, nonce, plaintext))

\* aesGCM.Open accepting whatever was sealed, under any key
DecryptAnyKey(s, cryptoText) ==
    LET dec == DecodeString(cryptoText)
    IN  IF dec.err # NoErr \/ dec.data.nonce = 0
        THEN [plaintext |-> "", err |-> Err("ciphertext")]
        ELSE [plaintext |-> dec.data.box[3], err |-> NoErr]

\* EncryptionService.Decrypt: the plaintext, or an error for text that is not
\* base64, is shorter than a nonce, or was not sealed under the service's key
Decrypt(s, cryptoText) ==
    LET dec == DecodeString(cryptoText)
        Open(data) ==
            IF data.box[1] = s.key /\ data.box[2] = data.nonce
            THEN [plaintext |-> data.box[3], err |-> NoErr]
            ELSE [plaintext |-> "", err |-> Err("cipher: message authentication failed")]
    IN  IF dec.err # NoErr THEN [plaintext |-> "", err |-> dec.err]
        ELSE IF dec.data.nonce = 0 THEN [plaintext |-> "", err |-> Err("ciphertext too short")]
        ELSE Open(dec.data)

\* main: the EncryptionService the server wires into its handlers
cryptoSvc == NewEncryptionService(MasterKey)

\* the drivers the server registers with database/sql
RegisteredDrivers == {"odbc", "mssql", "sqlserver", "mysql", "postgres", "sqlite"}

\* table connections
Connections == <<
    [ID |-> 1, Name |-> <<"m">>, Driver |-> "sqlite",
     ConnectionStringEnc |-> Encrypt(cryptoSvc, "dsn1", 1), IsActive |-> TRUE],
    [ID |-> 2, Name |-> <<"o">>, Driver |-> "sqlite",
     ConnectionStringEnc |-> Encrypt(cryptoSvc, "dsn2", 2), IsActive |-> FALSE],
    [ID |-> 3, Name |-> <<"d", "o", "c", "s">>, Driver |-> "mysql",
     ConnectionStringEnc |-> Encrypt(cryptoSvc, "dsn3", 3), IsActive |-> TRUE],
    [ID |-> 4, Name |-> <<"x">>, Driver |-> "sqlite",
     ConnectionStringEnc |-> <<"garbage">>, IsActive |-> TRUE],
    [ID |-> 5, Name |-> <<"n">>, Driver |-> "oracle",
     ConnectionStringEnc |-> Encrypt(cryptoSvc, "dsn5", 5), IsActive |-> TRUE],
    [ID |-> 6, Name |-> <<"p">>, Driver |-> "postgres",
     ConnectionStringEnc |-> Encrypt(cryptoSvc, "dsn6", 6), IsActive |-> TRUE],
    [ID |-> 7, Name |-> <<"s">>, Driver |-> "mssql",
     ConnectionStringEnc |-> Encrypt(cryptoSvc, "dsn7", 7), IsActive |-> TRUE],
    [ID |-> 8, Name |-> <<"b">>, Driver |-> "odbc",
     ConnectionStringEnc |-> Encrypt(cryptoSvc, "dsn8", 8), IsActive |-> TRUE] >>

\* tables queries and query_connections
Queries == <<
    [ID |-> 1, Slug |-> <<"q">>,
     SQLText |-> <<"{", "a", "}", " ", "{", "p", "a", "g", "i", "n", "a", "t", "i", "o", "n", "}">>,
     IsActive |-> TRUE, AllowedConnectionIDs |-> {1, 2, 4, 5}],
    [ID |-> 2, Slug |-> <<"f">>, SQLText |-> <<"{", "a", ":", "1", "}">>,
     IsActive |-> FALSE, AllowedConnectionIDs |-> {1}] >>

NoConnection == [ID |-> 0, Name |-> <<>>, Driver |-> "", ConnectionStringEnc |-> <<>>,
                 IsActive |-> FALSE]

NoQuery == [ID |-> 0, Slug |-> <<>>, SQLText |-> <<>>, IsActive |-> FALSE,
            AllowedConnectionIDs |-> {}]

\* ConnectionRepo.GetByID: NoConnection stands for sql.ErrNoRows
GetByID(id) ==
    IF \E i \in 1..Len(Connections) : Connections[i].ID = id
    THEN Connections[CHOOSE i \in 1..Len(Connections) : Connections[i].ID = id]
    ELSE NoConnection

\* ConnectionRepo.GetByName: the connection with exactly this name
GetByName(name) ==
    IF \E i \in 1..Len(Connections) : Connections[i].Name = name
    THEN Connections[CHOOSE i \in 1..Len(Connections) : Connections[i].Name = name]
    ELSE NoConnection

\* QueryRepo.GetBySlug
GetBySlug(slug) ==
    IF \E i \in 1..Len(Queries) : Queries[i].Slug = slug
    THEN Queries[CHOOSE i \in 1..Len(Queries) : Queries[i].Slug = slug]
    ELSE NoQuery

\* a prune that keeps the oldest `limit` rows
PruneToOldest(rows, limit) ==
    IF Len(rows) <= limit THEN rows ELSE SubSeq(rows, 1, limit)

\* keep the newest `limit` rows
PruneTo(rows, limit) ==
    IF Len(rows) <= limit THEN rows ELSE SubSeq(rows, Len(rows) - limit + 1, Len(rows))

AuditRetention == 1000

\* AuditRepo.Create: the INSERT names every field of the row but id (ids are
\* AUTOINCREMENT); when it fails nothing is stored and the executor, which
\* drops the error, does not notice
AuditCreate(rows, l) ==
    IF (DOMAIN l) \ {"id"} \subseteq ColumnsOf("audit_logs")
    THEN Append(rows, [l EXCEPT !.id = IF rows = <<>> THEN 1 ELSE rows[Len(rows)].id + 1])
    ELSE rows

\* an audit row that calls every outcome a success
AuditStatusAlwaysSuccess(err) == "SUCCESS"

\* the status the deferred function of ExecuteSQL derives from err
AuditStatus(err) == IF err # NoErr THEN "ERROR" ELSE "SUCCESS"

\* the core.AuditLog the deferred function of ExecuteSQL builds at time t
AuditLogOf(c, apiKeyID, t) ==
    [id |-> 0, timestamp |-> c.startTime, user_id |-> 0, api_key_id |-> apiKeyID,
     connection_id |-> c.connectionID, query_id |-> c.queryID,
     duration_ms |-> (t - c.startTime) * 1000, status |-> AuditStatus(c.err),
     error_message |-> c.err, params |-> c.params]

\* how many rows the target can return
RowCounts == {0, 1}

(***************************************************************************)
(* Routing under /api                                                      *)
(***************************************************************************)

ApiMount == <<"/", "a", "p", "i">>

DocsPrefix == <<"/", "a", "p", "i", "/", "d", "o", "c", "s">>

DocsPath == <<"/", "d", "o", "c", "s">>

OpenAPIPath == DocsPath \o <<"/", "o", "p", "e", "n", "a", "p", "i", ".", "j", "s", "o", "n">>

\* the path segments the sub-router of r.Route("/api", ...) matches on
Segments(path) == SplitAll(SubSeq(path, Len(ApiMount) + 2, Len(path)), "/")

\* chi's match of Handler.Routes for a method and a path under /api
RouteOf(method, path) ==
    LET sub  == SubSeq(path, Len(ApiMount) + 1, Len(path))
        segs == Segments(path)
        two  == Len(segs) = 2 /\ segs[1] # <<>> /\ segs[2] # <<>>
    IN  IF method = "GET" /\ sub = OpenAPIPath THEN "GetOpenAPISpec"
        ELSE IF method = "GET" /\ sub = DocsPath THEN "ServeSwaggerUI"
        ELSE IF method = "POST" /\ two THEN "ExecuteQuery"
        ELSE IF sub \in {OpenAPIPath, DocsPath} \/ two THEN "MethodNotAllowed"
        ELSE "NotFound"

(***************************************************************************)
(* Requests, and the server answering them one step at a time              *)
(***************************************************************************)

\* requests answered in one run
MaxRequests == 1

\* RemoteAddr of the one client (no X-Forwarded-For, no X-Real-IP)
ClientIP == "ip"

PathOf(segs) == ApiMount \o <<"/">> \o Join(segs, <<"/">>)

ApiPaths ==
    {PathOf(segs) : segs \in
        {<< <<"d", "o", "c", "s">> >>,
         << <<"d", "o", "c", "s">>, <<"o", "p", "e", "n", "a", "p", "i", ".", "j", "s", "o", "n">> >>,
         << <<"m">>, <<"q">> >>, << <<"o">>, <<"q">> >>, << <<"x">>, <<"q">> >>,
         << <<"n">>, <<"q">> >>, << <<"z">>, <<"q">> >>, << <<"m">>, <<"z">> >>,
         << <<"m">>, <<"f">> >>, << <<"d", "o", "c", "s">>, <<"q">> >>}}

\* X-API-Key: absent, the active key, the revoked key
HeaderKeys == {"", "k1", "k2"}

\* request bodies
ParamMaps == {EmptyMap, MapSet(EmptyMap, <<"a">>, NumV(1))}

\* a GET carries no body
ApiRequests ==
    {[NoReq EXCEPT !.kind = "api", !.method = "GET", !.path = p, !.apiKey = k] :
        p \in ApiPaths, k \in HeaderKeys}
    \cup
    {[NoReq EXCEPT !.kind = "api", !.method = "POST", !.path = p, !.apiKey = k, !.params = ps] :
        p \in ApiPaths, k \in HeaderKeys, ps \in ParamMaps}

\* POST /queries/run of a signed-in administrator, as JSON
AdminRequests ==
    {[NoReq EXCEPT !.kind = "admin", !.method = "POST", !.connID = c, !.queryID = q,
                   !.sqlText = Queries[1].SQLText, !.params = ps] :
        c \in {1, 2, 9}, q \in {0, 2}, ps \in ParamMaps}

\* api_keys after GenerateApiKey(1, "ci") twice and Revoke(2)
SeedKey(key) == [id |-> 0, user_id |-> 1, key_prefix |-> KeyPrefix(key),
                 key_hash |-> Sha256Hex(key), description |-> "ci",
                 last_used_at |-> NoTime, is_active |-> TRUE]

SeedKeys == ApiKeyRevoke(ApiKeyCreate(ApiKeyCreate(<<>>, SeedKey("k1")), SeedKey("k2")), 2)

\* the api limiter before any request, or after the active key has used up
\* its burst on GET /api/docs
SeedBuckets == {NoBuckets, MapSet(NoBuckets, "k1", [tokens |-> 0, lastCheck |-> 0])}

ExecInit ==
    /\ now = 0
    /\ ParserIdle
    /\ LibIdle
    /\ apiKeys = SeedKeys
    /\ generated = MapSet(MapSet([k \in {} |-> NoRow], "k1", [SeedKey("k1") EXCEPT !.id = 1]),
                          "k2", [SeedKey("k2") EXCEPT !.id = 2])
    /\ revokedIds = {2}
    /\ lastOp = [op |-> "revoke", key |-> "", id |-> 2, err |-> "", rec |-> NoRow]
    /\ rate = 600
    /\ burst = 10
    /\ buckets \in SeedBuckets
    /\ nextCleanup = CleanupEvery
    /\ advances = 0
    /\ lastAllow = NoAllow
    /\ window = NoWindow
    /\ epc = "idle"
    /\ req = NoReq
    /\ call = NoCall
    /\ resp = NoResp
    /\ auditLogs = <<>>
    /\ prunes = 0
    /\ served = 0

\* what no step of a request touches
outsideExec == <<parserVars, generated, revokedIds, rate, burst, nextCleanup, advances, window,
                 libVars>>

\* the same without the observer's count of admissions
outsideLimited == <<parserVars, generated, revokedIds, rate, burst, nextCleanup, advances,
                    libVars>>

\* the server accepts the next request
Receive ==
    /\ epc \in {"idle", "done"}
    /\ served < MaxRequests
    /\ \E r \in ApiRequests \cup AdminRequests :
          /\ req' = [r EXCEPT !.auditBefore = Len(auditLogs)]
          /\ epc' = IF r.kind = "api" THEN "MiddlewareByAPIKey" ELSE "RunQuery"
    /\ served' = served + 1
    /\ call' = NoCall
    /\ resp' = NoResp
    /\ UNCHANGED <<now, apiKeys, lastOp, buckets, lastAllow, auditLogs, prunes, outsideExec>>

\* apiLimiter.MiddlewareByAPIKey, the first middleware of /api
MiddlewareByAPIKey ==
    /\ epc = "MiddlewareByAPIKey"
    /\ LET key == IF req.apiKey = "" THEN ClientIP ELSE req.apiKey
           res == Allow(buckets, rate, burst, key, now)
       IN  /\ buckets' = res.buckets
           /\ lastAllow' = [key |-> key, ok |-> res.ok]
           /\ window' = IF window.open /\ window.key = key /\ res.ok
                        THEN [window EXCEPT !.count = window.count + 1]
                        ELSE window
           /\ IF res.ok
              THEN epc' = "AuthMiddleware" /\ UNCHANGED resp
              ELSE /\ epc' = "done"
                   /\ resp' = [status |-> 429, err |-> Err("Too Many Requests")]
    /\ UNCHANGED <<now, apiKeys, lastOp, req, call, auditLogs, prunes, served, outsideLimited>>

\* Handler.AuthMiddleware
AuthMiddleware ==
    /\ epc = "AuthMiddleware"
    /\ IF HasPrefix(req.path, DocsPrefix)
       THEN epc' = "Routes" /\ UNCHANGED <<req, resp, apiKeys, lastOp>>
       ELSE IF req.apiKey = ""
       THEN /\ epc' = "done"
            /\ resp' = [status |-> 401, err |-> Err("Missing X-API-Key header")]
            /\ UNCHANGED <<req, apiKeys, lastOp>>
       ELSE LET apiKey == GetByHash(apiKeys, Sha256Hex(req.apiKey))
            IN  IF apiKey = NoRow
                THEN /\ epc' = "done"
                     /\ resp' = [status |-> 401, err |-> Err("Invalid X-API-Key")]
                     /\ lastOp' = [op |-> "verify", key |-> req.apiKey, id |-> 0,
                                   err |-> "invalid api key", rec |-> NoRow]
                     /\ UNCHANGED <<req, apiKeys>>
                ELSE /\ epc' = "Routes"
                     /\ apiKeys' = UpdateLastUsed(apiKeys, apiKey.id, now)
                     /\ lastOp' = [op |-> "verify", key |-> req.apiKey, id |-> apiKey.id,
                                   err |-> "", rec |-> apiKey]
                     /\ req' = [req EXCEPT !.ctxApiKeyID = apiKey.id]
                     /\ UNCHANGED resp
    /\ UNCHANGED <<now, buckets, lastAllow, call, auditLogs, prunes, served, outsideExec>>

\* Handler.Routes: the router picks the handler
Routes ==
    /\ epc = "Routes"
    /\ LET h == RouteOf(req.method, req.path)
       IN  IF h = "ExecuteQuery" THEN epc' = "ExecuteByName" /\ UNCHANGED resp
           ELSE /\ epc' = "done"
                /\ resp' = [status |-> IF h = "NotFound" THEN 404
                                       ELSE IF h = "MethodNotAllowed" THEN 405 ELSE 200,
                            err |-> NoErr]
    /\ UNCHANGED <<now, apiKeys, lastOp, buckets, lastAllow, req, call, auditLogs, prunes,
                   served, outsideExec>>

\* Handler.ExecuteQuery calls QueryExecutor.ExecuteByName: connRepo.GetByName
ExecuteByName ==
    /\ epc = "ExecuteByName"
    /\ LET conn == GetByName(Segments(req.path)[1])
           c    == [NoCall EXCEPT !.via = "ExecuteByName", !.params = req.params,
                                  !.auditBefore = Len(auditLogs)]
       IN  IF conn = NoConnection
           THEN /\ call' = [c EXCEPT !.err = Err("connection not found")]
                /\ epc' = "returned"
           ELSE /\ call' = [c EXCEPT !.connectionID = conn.ID]
                /\ epc' = "Execute"
    /\ UNCHANGED <<now, apiKeys, lastOp, buckets, lastAllow, req, resp, auditLogs, prunes,
                   served, outsideExec>>

\* QueryExecutor.Execute: queryRepo.GetBySlug, then ExecuteSQL starts its timer
Execute ==
    /\ epc = "Execute"
    /\ LET queryDetails == GetBySlug(Segments(req.path)[2])
       IN  IF queryDetails = NoQuery
           THEN /\ call' = [call EXCEPT !.err = Err("query not found")]
                /\ epc' = "returned"
           ELSE /\ call' = [call EXCEPT !.entered = TRUE, !.queryID = queryDetails.ID,
                                        !.sqlText = queryDetails.SQLText, !.startTime = now]
                /\ epc' = "GetByID"
    /\ UNCHANGED <<now, apiKeys, lastOp, buckets, lastAllow, req, resp, auditLogs, prunes,
                   served, outsideExec>>

\* WebHandler.RunQuery calls QueryExecutor.ExecuteSQL with the SQL of the form
RunQuery ==
    /\ epc = "RunQuery"
    /\ call' = [NoCall EXCEPT !.via = "ExecuteSQL", !.entered = TRUE,
                              !.connectionID = req.connID, !.queryID = req.queryID,
                              !.sqlText = req.sqlText, !.params = req.params,
                              !.startTime = now, !.auditBefore = Len(auditLogs)]
    /\ epc' = "GetByID"
    /\ UNCHANGED <<now, apiKeys, lastOp, buckets, lastAllow, req, resp, auditLogs, prunes,
                   served, outsideExec>>

\* what every step of ExecuteSQL before the deferred functions leaves alone
sqlFrame == <<now, apiKeys, lastOp, buckets, lastAllow, req, resp, auditLogs, prunes,
              served, outsideExec>>

\* ExecuteSQL 1: connRepo.GetByID and the is_active test
GetConnection ==
    /\ epc = "GetByID"
    /\ LET connDetails == GetByID(call.connectionID)
       IN  IF connDetails = NoConnection
           THEN call' = [call EXCEPT !.err = Err("connection not found")] /\ epc' = "deferred"
           ELSE IF ~connDetails.IsActive
           THEN call' = [call EXCEPT !.err = Err("connection is inactive")] /\ epc' = "deferred"
           ELSE call' = [call EXCEPT !.driver = connDetails.Driver] /\ epc' = "Decrypt"
    /\ UNCHANGED sqlFrame

\* ExecuteSQL 2: cryptoSvc.Decrypt
DecryptConnectionString ==
    /\ epc = "Decrypt"
    /\ LET d == Decrypt(cryptoSvc, GetByID(call.connectionID).ConnectionStringEnc)
       IN  IF d.err # NoErr
           THEN /\ call' = [call EXCEPT !.err = Err("failed to decrypt connection string")]
                /\ epc' = "deferred"
           ELSE call' = [call EXCEPT !.dsn = d.plaintext] /\ epc' = "Paginate"
    /\ UNCHANGED sqlFrame

\* ExecuteSQL 3: sqlText = e.processSystemVariables(sqlText, driver, params)
Paginate ==
    /\ epc = "Paginate"
    /\ \E sql1 \in {processSystemVariables(call.sqlText, call.driver, call.params)} :
          call' = [call EXCEPT !.sqlText = sql1]
    /\ epc' = "PaginateAgain"
    /\ UNCHANGED sqlFrame

\* ExecuteSQL 3, written a second time: the same assignment once more
PaginateAgain ==
    /\ epc = "PaginateAgain"
    /\ \E sql2 \in {processSystemVariables(call.sqlText, call.driver, call.params)} :
          call' = [call EXCEPT !.sqlText = sql2]
    /\ epc' = "Bind"
    /\ UNCHANGED sqlFrame

\* ExecuteSQL 3 and 4: parseSQL, MapValues
BindParameters ==
    /\ epc = "Bind"
    /\ \E pr \in {Parse(call.sqlText, call.params)} :
       \E m \in {MapValues(pr.ParamNames, pr.values, pr.Defaults)} :
          IF m.err # NoErr
          THEN /\ call' = [call EXCEPT !.params = pr.values,
                                       !.ParamNames = pr.ParamNames, !.err = m.err]
               /\ epc' = "deferred"
          ELSE /\ call' = [call EXCEPT !.params = pr.values, !.SQL = pr.SQL,
                                       !.ParamNames = pr.ParamNames, !.args = m.args]
               /\ epc' = "Open"
    /\ UNCHANGED sqlFrame

\* ExecuteSQL 5: sql.Open
OpenDB ==
    /\ epc = "Open"
    /\ IF call.driver \notin RegisteredDrivers
       THEN /\ call' = [call EXCEPT !.err = Err("failed to open database connection")]
            /\ epc' = "deferred"
       ELSE call' = [call EXCEPT !.opened = TRUE] /\ epc' = "Ping"
    /\ UNCHANGED sqlFrame

\* the database operations of ExecuteSQL that run under ctxTimeout
DatabaseSteps == {"Ping", "Query", "Columns", "Rows"}

\* the caller's context is cancelled while a database operation is in flight
CancelContext ==
    /\ epc \in DatabaseSteps
    /\ call.ctxDone = ""
    /\ call' = [call EXCEPT !.ctxDone = epc]
    /\ UNCHANGED <<epc, sqlFrame>>

\* the error of a database step: the step's own, or ctx.Err() once the
\* context is done
StepErr(own, cancelled) == Err(IF call.ctxDone # "" THEN cancelled ELSE own)

\* db.PingContext: the target answers or does not; a cancellation that
\* arrives during the ping can come too late to stop it
Ping ==
    /\ epc = "Ping"
    /\ \E ok \in BOOLEAN :
          IF ok THEN epc' = "Query" /\ UNCHANGED call
          ELSE /\ call' = [call EXCEPT !.err = StepErr("failed to ping database",
                                                         "failed to ping database: context canceled")]
               /\ epc' = "deferred"
    /\ UNCHANGED sqlFrame

\* ExecuteSQL 6: db.QueryContext; it refuses a context that was done before
\* it started, and can finish in spite of one that is done while it runs
Query ==
    /\ epc = "Query"
    /\ \E ok \in (IF call.ctxDone = "Ping" THEN {FALSE} ELSE BOOLEAN) :
          IF ok THEN call' = [call EXCEPT !.queried = TRUE] /\ epc' = "Columns"
          ELSE /\ call' = [call EXCEPT !.queried = TRUE,
                                       !.err = StepErr("execution error",
                                                       "execution error: context canceled")]
               /\ epc' = "deferred"
    /\ UNCHANGED sqlFrame

\* ExecuteSQL 7: rows.Columns; once the context is done the rows are closed
\* in the background, before or after this call
Columns ==
    /\ epc = "Columns"
    /\ \E ok \in BOOLEAN :
          IF ok THEN epc' = "Rows" /\ UNCHANGED call
          ELSE /\ call' = [call EXCEPT !.err = StepErr("sql: Rows are closed", "context canceled")]
               /\ epc' = "deferred"
    /\ UNCHANGED sqlFrame

\* the rows.Next / rows.Scan loop, and the return of the result: Scan can
\* fail; rows.Next returning false ends the loop, and rows.Err() is not
\* read, so rows closed by a done context end it like the last row does
ScanRows ==
    /\ epc = "Rows"
    /\ \E n \in RowCounts, ok \in BOOLEAN :
          IF ok
          THEN call' = [call EXCEPT !.result = [present |-> TRUE, Columns |-> 1, Rows |-> n]]
          ELSE call' = [call EXCEPT !.err = StepErr("sql: Scan error", "context canceled")]
    /\ epc' = "deferred"
    /\ UNCHANGED sqlFrame

\* the deferred functions of ExecuteSQL: the handle is closed and the audit
\* row written; AuditRepo.Create starts its prune in the background
Deferred ==
    /\ epc = "deferred"
    /\ auditLogs' = AuditCreate(auditLogs, AuditLogOf(call, req.ctxApiKeyID, now))
    /\ prunes' = prunes + 1
    /\ epc' = "returned"
    /\ UNCHANGED <<now, apiKeys, lastOp, buckets, lastAllow, req, call, resp, served,
                   outsideExec>>

\* the handler turns what the executor returned into the response
Respond ==
    /\ epc = "returned"
    /\ resp' = [status |-> IF call.err = NoErr THEN 200
                           ELSE IF req.kind = "api" THEN 500 ELSE 400,
                err |-> call.err]
    /\ epc' = "done"
    /\ UNCHANGED <<now, apiKeys, lastOp, buckets, lastAllow, req, call, auditLogs, prunes,
                   served, outsideExec>>

\* the background DELETE of AuditRepo.Create
AuditPrune ==
    /\ prunes > 0
    /\ auditLogs' = PruneTo(auditLogs, AuditRetention)
    /\ prunes' = prunes - 1
    /\ UNCHANGED <<now, apiKeys, lastOp, buckets, lastAllow, epc, req, call, resp, served,
                   outsideExec>>

\* time passes: between two requests, and while the target database works
\* on the query
ExecTick ==
    /\ now < MaxNow
    /\ epc \in {"idle", "done", "Query"}
    /\ now' = now + 1
    /\ UNCHANGED <<apiKeys, lastOp, buckets, lastAllow, epc, req, call, resp, auditLogs,
                   prunes, served, outsideExec>>

ExecNext ==
    \/ Receive \/ MiddlewareByAPIKey \/ AuthMiddleware \/ Routes
    \/ ExecuteByName \/ Execute \/ RunQuery
    \/ GetConnection \/ DecryptConnectionString \/ Paginate \/ PaginateAgain
    \/ BindParameters \/ OpenDB \/ CancelContext
    \/ Ping \/ Query \/ Columns \/ ScanRows \/ Deferred \/ Respond
    \/ AuditPrune \/ ExecTick

SpecExec == ExecInit /\ [][ExecNext]_vars

(***************************************************************************)
(* The audit trail and the gates of an execution                           *)
(***************************************************************************)

\* where ExecuteSQL is between its first statement and its deferred functions
InExecuteSQL == {"GetByID", "Decrypt", "Paginate", "PaginateAgain", "Bind", "Open", "Ping",
                 "Query", "Columns", "Rows", "deferred"}

LastAudit == auditLogs[Len(auditLogs)]

\* C1: every call of ExecuteSQL, whatever step it ends at, appends exactly
\* one audit row: none while the call runs, one once it has returned; the
\* row says SUCCESS exactly when the call returned a result and no error,
\* ERROR otherwise, and its duration_ms is >= 0.
C1_OneAuditRowPerCall ==
    /\ (call.entered /\ epc \in InExecuteSQL) => Len(auditLogs) = call.auditBefore
    /\ (call.entered /\ epc \in {"returned", "done"}) =>
          /\ Len(auditLogs) = call.auditBefore + 1
          /\ (call.err = NoErr) <=> call.result.present
          /\ LastAudit.status = (IF call.result.present THEN "SUCCESS" ELSE "ERROR")
          /\ LastAudit.duration_ms >= 0

\* a call that got as far as the row scan, failed there after some time, and
\* left its ERROR row
C1_Witness ==
    /\ epc = "returned" /\ call.entered /\ call.queried
    /\ call.err = Err("sql: Scan error")
    /\ Len(auditLogs) = call.auditBefore + 1
    /\ LastAudit.status = "ERROR" /\ LastAudit.duration_ms > 0

\* C2: every failed execution attempt through ExecuteByName, Execute or
\* ExecuteSQL, a failure to resolve the connection name or the query slug
\* included, leaves exactly one audit row, with status ERROR and the error's
\* message.
C2_EveryFailureAudited ==
    (call.via # "none" /\ epc \in {"returned", "done"} /\ call.err # NoErr) =>
        /\ Len(auditLogs) = call.auditBefore + 1
        /\ LastAudit.status = "ERROR"
        /\ LastAudit.error_message = call.err

QueryByID(id) ==
    IF \E i \in 1..Len(Queries) : Queries[i].ID = id
    THEN Queries[CHOOSE i \in 1..Len(Queries) : Queries[i].ID = id]
    ELSE NoQuery

\* C3: a saved query reaches the target database (a driver handle is opened)
\* only if the query and the connection are both active; otherwise the
\* execution fails before any handle is opened.
C3_RunsOnlyIfBothActive ==
    (call.via = "ExecuteByName" /\ call.opened) =>
        /\ QueryByID(call.queryID).IsActive
        /\ GetByID(call.connectionID).IsActive

\* C4: a request made through ExecuteByName / Execute reaches the target
\* database only if the connection is one of the query's
\* allowed_connection_ids.
C4_OnlyAllowedConnections ==
    (call.via = "ExecuteByName" /\ call.opened) =>
        call.connectionID \in QueryByID(call.queryID).AllowedConnectionIDs

DocPaths == {DocsPrefix,
             DocsPrefix \o <<"/", "o", "p", "e", "n", "a", "p", "i", ".", "j", "s", "o", "n">>}

\* C5: a request under /api/ other than the two doc paths that carries no
\* valid X-API-Key is answered 401, never reaches the executor and appends
\* no audit row, whatever connection name and query slug its path holds.
C5_KeyRequiredUnderApi ==
    (/\ req.kind = "api"
     /\ req.path \notin DocPaths
     /\ GetByHash(apiKeys, Sha256Hex(req.apiKey)) = NoRow) =>
        /\ call.via = "none"
        /\ Len(auditLogs) = req.auditBefore
        /\ epc = "done" => resp.status = 401

(***************************************************************************)
(* ExecuteSQL from the run form, up to the bound statement                 *)
(***************************************************************************)

PageName == <<"_", "p", "a", "g", "e">>

LimitName == <<"_", "l", "i", "m", "i", "t">>

BareToken == <<"{">> \o PaginationWord \o <<"}">>

\* the texts a statement of the run form is assembled from
PageFragments ==
    { BareToken,
      <<"{">> \o PaginationWord \o <<":", "2", ":", "5", "}">>,
      <<"{", " ", "P">> \o Tail(PaginationWord) \o <<":", " ", "3", " ", ":", " ", "}">>,
      <<"{">> \o PaginationWord \o <<":", ":", "0", "}">>,
      <<"{", "a", "}">>,
      <<"{">> \o PageName \o <<"}">>,
      <<"S", " ">> }

\* longest statement of the run form, in fragments
MaxTokens == 2

PageTexts ==
    {Concat(parts) : parts \in UNION {[1..n -> PageFragments] : n \in 1..MaxTokens}}

\* request bodies: _page, _limit and a, each absent or present
PageParams ==
    LET With(ms, name, vs) == ms \cup {MapSet(m, name, v) : m \in ms, v \in vs}
    IN  With(With(With({EmptyMap}, PageName,
                       {NumV(3), NumV(0), StrV(<<"2">>), StrV(<<"x">>)}),
                  LimitName, {NumV(20), StrV(<<"x">>)}),
             NameA, {StrV(<<"v">>)})

\* the active connections the run form can name, one per dialect
RunConnIDs == {1, 3, 5, 6, 7, 8}

RunRequests ==
    {[NoReq EXCEPT !.kind = "admin", !.method = "POST", !.connID = c,
                   !.sqlText = t, !.params = ps] :
        c \in RunConnIDs, t \in PageTexts, ps \in PageParams}

\* the server has accepted one request of the run form
BindInit ==
    /\ now = 0
    /\ ParserIdle
    /\ LibIdle
    /\ apiKeys = SeedKeys
    /\ generated = MapSet(MapSet([k \in {} |-> NoRow], "k1", [SeedKey("k1") EXCEPT !.id = 1]),
                          "k2", [SeedKey("k2") EXCEPT !.id = 2])
    /\ revokedIds = {2}
    /\ lastOp = [op |-> "revoke", key |-> "", id |-> 2, err |-> "", rec |-> NoRow]
    /\ rate = 600
    /\ burst = 10
    /\ buckets = NoBuckets
    /\ nextCleanup = CleanupEvery
    /\ advances = 0
    /\ lastAllow = NoAllow
    /\ window = NoWindow
    /\ epc = "RunQuery"
    /\ req \in RunRequests
    /\ call = NoCall
    /\ resp = NoResp
    /\ auditLogs = <<>>
    /\ prunes = 0
    /\ served = 1

BindNext ==
    \/ RunQuery \/ GetConnection \/ DecryptConnectionString
    \/ Paginate \/ PaginateAgain \/ BindParameters

SpecBind == BindInit /\ [][BindNext]_vars

(***************************************************************************)
(* Claims about the pagination rewrite                                     *)
(***************************************************************************)

\* the first token of the statement the request carries
FirstToken == MatchPaginationAt(req.sqlText, FindPagination(req.sqlText))

HasToken == FindPagination(req.sqlText) # 0

\* the statement of the request with its first token replaced by a clause
WithClause(clause) ==
    SubSeq(req.sqlText, 1, FindPagination(req.sqlText) - 1)
    \o clause
    \o SubSeq(req.sqlText, FirstToken.to + 1, Len(req.sqlText))

Words(ws) == Join(ws, <<" ">>)

\* the dialect table of the rewrite
DialectClause(driver, limit, offset) ==
    CASE driver = "mysql" ->
            Words(<< <<"L", "I", "M", "I", "T">>, Itoa(offset) \o <<",">>, Itoa(limit) >>)
      [] driver \in {"mssql", "odbc"} ->
            Words(<< <<"T", "O", "P">>, Itoa(limit), <<"S", "T", "A", "R", "T">>, <<"A", "T">>,
                     Itoa(offset + 1) >>)
      [] OTHER ->
            Words(<< <<"L", "I", "M", "I", "T">>, Itoa(limit), <<"O", "F", "F", "S", "E", "T">>,
                     Itoa(offset) >>)

\* C12: with the effective (page, limit) and offset = (page-1)*limit, one
\* rewrite replaces the token by 'LIMIT limit OFFSET offset' for sqlite,
\* postgres and unknown drivers, by 'LIMIT offset, limit' for mysql and by
\* 'TOP limit START AT offset+1' for mssql and odbc.
C12_DialectRewrite ==
    (req.kind = "admin" /\ epc = "PaginateAgain" /\ HasToken) =>
        \E eff \in {EffectivePagination(req.params, FirstToken)} :
            call.sqlText = WithClause(DialectClause(call.driver, eff.limit,
                                                    (eff.page - 1) * eff.limit))

\* _page = 3, _limit = 20 on a bare token for mssql: TOP 20 START AT 41
C12_Witness ==
    /\ epc = "PaginateAgain"
    /\ req.sqlText = BareToken
    /\ call.driver = "mssql"
    /\ PageName \in DOMAIN req.params /\ req.params[PageName] = NumV(3)
    /\ LimitName \in DOMAIN req.params /\ req.params[LimitName] = NumV(20)
    /\ call.sqlText = <<"T", "O", "P", " ", "2", "0", " ", "S", "T", "A", "R", "T", " ",
                        "A", "T", " ", "4", "1">>

\* _page / _limit of the request when present and parseable
RequestValue(name) ==
    IF name \notin DOMAIN req.params THEN [ok |-> FALSE, v |-> 0]
    ELSE IF req.params[name].kind = "num" THEN [ok |-> TRUE, v |-> req.params[name].n]
    ELSE IF req.params[name].kind = "str" THEN Atoi(req.params[name].s)
    ELSE [ok |-> FALSE, v |-> 0]

\* P or L of the token, when digits were written
TokenValue(digits) == IF digits = <<>> THEN [ok |-> FALSE, v |-> 0] ELSE Atoi(digits)

\* P or L of the token, when a positive number was written
PositiveTokenValue(digits) ==
    IF TokenValue(digits).ok /\ TokenValue(digits).v > 0 THEN TokenValue(digits)
    ELSE [ok |-> FALSE, v |-> 0]

\* request value, else token value, else global default; then at least 1
Precedence(request, token, global) ==
    LET chosen == IF request.ok THEN request.v ELSE IF token.ok THEN token.v ELSE global
    IN  IF chosen < 1 THEN 1 ELSE chosen

\* the rewrite of the request's statement for (page, limit)
RewrittenFor(page, limit) ==
    WithClause(PaginationClause(call.driver, limit, (page - 1) * limit))

\* C13 as stated: page and limit are taken, each on its own, from _page /
\* _limit when present and parseable, else from P / L of the token, else from
\* (1, 50), and then clamped to at least 1.  A token default of 0 is not
\* clamped to 1 by the code: {pagination::0} gives the global limit 50.
C13_PrecedenceAnyTokenDefault ==
    (req.kind = "admin" /\ epc = "PaginateAgain" /\ HasToken) =>
        call.sqlText =
            RewrittenFor(Precedence(RequestValue(PageName), TokenValue(FirstToken.page),
                                    DefaultPage),
                         Precedence(RequestValue(LimitName), TokenValue(FirstToken.limit),
                                    DefaultLimit))

\* C13, amended: page and limit are taken, each on its own, from _page /
\* _limit when present and parseable, else from P / L of the token when that
\* is a positive number, else from (1, 50); the result is then clamped so that
\* page >= 1 and limit >= 1.
C13_Precedence ==
    (req.kind = "admin" /\ epc = "PaginateAgain" /\ HasToken) =>
        call.sqlText =
            RewrittenFor(Precedence(RequestValue(PageName),
                                    PositiveTokenValue(FirstToken.page), DefaultPage),
                         Precedence(RequestValue(LimitName),
                                    PositiveTokenValue(FirstToken.limit), DefaultLimit))

\* {pagination:2:5} with _limit = 20 and no _page on sqlite: the page of the
\* token and the limit of the request
C13_Witness ==
    /\ epc = "PaginateAgain"
    /\ req.sqlText = <<"{">> \o PaginationWord \o <<":", "2", ":", "5", "}">>
    /\ call.driver = "sqlite"
    /\ PageName \notin DOMAIN req.params
    /\ LimitName \in DOMAIN req.params /\ req.params[LimitName] = NumV(20)
    /\ call.sqlText = <<"L", "I", "M", "I", "T", " ", "2", "0", " ",
                        "O", "F", "F", "S", "E", "T", " ", "2", "0">>

\* C14: when the statement holds more than one pagination token, only the
\* first is replaced by the time the statement reaches the parameter parser;
\* the later ones are left as they were written.
C14_OnlyFirstReplaced ==
    (req.kind = "admin" /\ epc = "Bind" /\ HasToken) =>
        \E eff \in {EffectivePagination(req.params, FirstToken)} :
            call.sqlText = RewrittenFor(eff.page, eff.limit)

Reserved == {PageName, LimitName}

\* the names the parser has collected, and the names a failure reports
NamesOf(seq) == {seq[i] : i \in 1..Len(seq)}

\* parseSQL and MapValues have run
Bound == req.kind = "admin" /\ call.entered /\ epc \in {"Open", "deferred"}

\* no placeholder of the statement is written with a reserved name
NoReservedPlaceholder ==
    \A k \in 1..Len(FindAll(req.sqlText)) : PlaceholderName(req.sqlText, k) \notin Reserved

KeyA == [i \in 1..KeyLen |-> "a"]

\* master keys: equal, different inside the first KeyLen characters,
\* different only after them, and one that is too short
MasterKeys == {MasterKey, KeyA, [KeyA EXCEPT ![KeyLen] = "b"],
               KeyA \o <<"x">>, KeyA \o <<"y">>, SubSeq(KeyA, 1, KeyLen - 1)}

Plaintexts == {"", "p", "dsn"}

\* what crypto/rand may return for the nonce
Nonces == {1, 2}

\* texts that no Encrypt call returned
ForeignTexts == {<<"garbage">>, EncodeToString([nonce |-> 0, box |-> <<>>])}

CryptoInit ==
    /\ now = 0
    /\ ParserIdle
    /\ KeysIdle
    /\ LimiterIdle
    /\ ExecIdle
    /\ SlugIdle
    /\ DocIdle
    /\ ConcurrentIdle
    /\ crypt \in {[NoCrypt EXCEPT !.pc = "start", !.k1 = k1, !.k2 = k2, !.plaintext = p,
                                  !.nonce = n] :
                     k1 \in MasterKeys, k2 \in MasterKeys, p \in Plaintexts, n \in Nonces}

outsideCrypto == <<now, parserVars, keyVars, limiterVars, execVars, slugCall, docCall, creates, setup, mu>>

\* NewEncryptionService(k1) and Encrypt(plaintext)
EncryptUnderK1 ==
    /\ crypt.pc = "start"
    /\ LET s == NewEncryptionService(crypt.k1)
       IN  IF s.err # NoErr
           THEN crypt' = [crypt EXCEPT !.pc = "nokey", !.out = [plaintext |-> "", err |-> s.err]]
           ELSE crypt' = [crypt EXCEPT !.pc = "sealed",
                                       !.cryptoText = Encrypt(s, crypt.plaintext, crypt.nonce)]
    /\ UNCHANGED outsideCrypto

\* the stored text is replaced by one that Encrypt did not return
Overwrite ==
    /\ crypt.pc = "sealed"
    /\ \E t \in ForeignTexts : crypt' = [crypt EXCEPT !.pc = "foreign", !.cryptoText = t]
    /\ UNCHANGED outsideCrypto

\* NewEncryptionService(k2) and Decrypt(cryptoText)
DecryptUnderK2 ==
    /\ crypt.pc \in {"sealed", "foreign"}
    /\ LET s == NewEncryptionService(crypt.k2)
       IN  IF s.err # NoErr
           THEN crypt' = [crypt EXCEPT !.pc = "nokey", !.out = [plaintext |-> "", err |-> s.err]]
           ELSE crypt' = [crypt EXCEPT
                            !.pc = IF crypt.pc = "sealed" THEN "opened" ELSE "refused",
                            !.out = Decrypt(s, crypt.cryptoText)]
    /\ UNCHANGED outsideCrypto

CryptoNext == EncryptUnderK1 \/ Overwrite \/ DecryptUnderK2

SpecCrypto == CryptoInit /\ [][CryptoNext]_vars

\* a text sealed under k1 has been handed to Decrypt under k2
Opened == crypt.pc = "opened"

\* C16 as stated: for every plaintext p and master key k of length >= 32,
\* Decrypt(Encrypt(p)) under k returns p; and for any two master keys
\* k1 # k2 of length >= 32, decrypting under k2 a text produced under k1 fails
C16_AnyOtherKeyFails ==
    Opened =>
        /\ crypt.k1 = crypt.k2 => crypt.out = [plaintext |-> crypt.plaintext, err |-> NoErr]
        /\ crypt.k1 # crypt.k2 => crypt.out.err # NoErr

\* the key material of a master key string
KeyBytes(keyStr) == SubSeq(keyStr, 1, KeyLen)

\* C16: for every plaintext p and master key k of length >= 32,
\* Decrypt(Encrypt(p)) under k returns p; and for any two master keys of
\* length >= 32 whose first 32 characters differ, decrypting under one a
\* text produced under the other fails; two keys that agree on their first
\* 32 characters open each other's texts
C16_RoundTripAndOtherKeyFails ==
    Opened =>
        /\ KeyBytes(crypt.k1) = KeyBytes(crypt.k2)
              => crypt.out = [plaintext |-> crypt.plaintext, err |-> NoErr]
        /\ KeyBytes(crypt.k1) # KeyBytes(crypt.k2)
              => crypt.out = [plaintext |-> "", err |-> Err("cipher: message authentication failed")]

\* a text sealed under one key was refused under a key that differs from it
\* inside the first 32 characters
C16_Witness ==
    /\ Opened
    /\ crypt.k1 = KeyA
    /\ crypt.k2 = [KeyA EXCEPT ![KeyLen] = "b"]
    /\ crypt.plaintext = "dsn"
    /\ crypt.out.err # NoErr

(***************************************************************************)
(* core.Slugify                                                            *)
(***************************************************************************)

LowerLetters == <<"a", "b", "c", "d", "e", "f", "g", "h", "i", "j", "k", "l", "m",
                  "n", "o", "p", "q", "r", "s", "t", "u", "v", "w", "x", "y", "z">>

UpperLetters == <<"A", "B", "C", "D", "E", "F", "G", "H", "I", "J", "K", "L", "M",
                  "N", "O", "P", "Q", "R", "S", "T", "U", "V", "W", "X", "Y", "Z">>

IsLower(c) == \E i \in DOMAIN LowerLetters : LowerLetters[i] = c

\* strings.ToLower
ToLower(s) ==
    [i \in 1..Len(s) |->
        IF \E u \in DOMAIN UpperLetters : UpperLetters[u] = s[i]
        THEN LowerLetters[CHOOSE u \in DOMAIN UpperLetters : UpperLetters[u] = s[i]]
        ELSE s[i]]

\* strings.ReplaceAll(s, " ", "-")
SpacesToDashes(s) == [i \in 1..Len(s) |-> IF s[i] = " " THEN "-" ELSE s[i]]

\* [^a-z0-9-]+ replaced by "": every character outside the class is dropped
DropNonAlnum(s) ==
    LET InClass(c) == IsLower(c) \/ IsDigit(c) \/ c = "-"
    IN  SelectSeq(s, InClass)

\* the dashes are left as they are
KeepDashes(s) == s

\* -+ replaced by "-": a dash that follows a dash is dropped
CollapseDashes(s) ==
    LET kept[i \in 0..Len(s)] ==
            IF i = 0 THEN <<>>
            ELSE IF i > 1 /\ s[i] = "-" /\ s[i - 1] = "-" THEN kept[i - 1]
            ELSE Append(kept[i - 1], s[i])
    IN  kept[Len(s)]

\* strings.Trim(s, "-")
TrimDashes(s) ==
    LET inner == {i \in 1..Len(s) : s[i] # "-"}
    IN  IF inner = {} THEN <<>>
        ELSE SubSeq(s, CHOOSE i \in inner : \A j \in inner : i <= j,
                       CHOOSE i \in inner : \A j \in inner : i >= j)

Slugify(s) == TrimDashes(CollapseDashes(DropNonAlnum(SpacesToDashes(ToLower(s)))))

\* the characters the names are written with
NameChars == {"a", "B", "1", " ", "-", "_"}

\* the longest name slugified
MaxName == 4

Names == UNION {[1..n -> NameChars] : n \in 0..MaxName}

SlugInit ==
    /\ now = 0
    /\ ParserIdle
    /\ KeysIdle
    /\ LimiterIdle
    /\ ExecIdle
    /\ CryptIdle
    /\ DocIdle
    /\ ConcurrentIdle
    /\ slugCall \in {[NoSlug EXCEPT !.pc = "start", !.s = s] : s \in Names}

outsideSlug == <<now, parserVars, keyVars, limiterVars, execVars, crypt, docCall, creates, setup, mu>>

\* Slugify(s)
SlugifyOnce ==
    /\ slugCall.pc = "start"
    /\ slugCall' = [slugCall EXCEPT !.pc = "once", !.once = Slugify(slugCall.s)]
    /\ UNCHANGED outsideSlug

\* Slugify(Slugify(s))
SlugifyTwice ==
    /\ slugCall.pc = "once"
    /\ slugCall' = [slugCall EXCEPT !.pc = "twice", !.twice = Slugify(slugCall.once)]
    /\ UNCHANGED outsideSlug

SlugNext == SlugifyOnce \/ SlugifyTwice

SpecSlug == SlugInit /\ [][SlugNext]_vars

\* [a-z0-9-] only, no "--", no dash at either end
WellFormedSlug(t) ==
    /\ \A i \in 1..Len(t) : IsLower(t[i]) \/ IsDigit(t[i]) \/ t[i] = "-"
    /\ \A i \in 1..Len(t) - 1 : ~(t[i] = "-" /\ t[i + 1] = "-")
    /\ t # <<>> => t[1] # "-" /\ t[Len(t)] # "-"

\* C17: for every string s of length >= 1, Slugify(Slugify(s)) = Slugify(s),
\* and Slugify(s) contains only characters of [a-z0-9-], has no two
\* consecutive dashes, and neither starts nor ends with a dash
C17_SlugifyIdempotent ==
    /\ slugCall.pc \in {"once", "twice"} /\ Len(slugCall.s) >= 1 => WellFormedSlug(slugCall.once)
    /\ slugCall.pc = "twice" /\ Len(slugCall.s) >= 1 => slugCall.twice = slugCall.once

\* "a -1" was slugified to "a-1", and slugifying that gave "a-1" again
C17_Witness ==
    /\ slugCall.pc = "twice"
    /\ slugCall.s = <<"a", " ", "-", "1">>
    /\ slugCall.once = <<"a", "-", "1">>
    /\ slugCall.twice = slugCall.once

(***************************************************************************)
(* DocHandler.GetOpenAPISpec: the OpenAPI document built from the catalog  *)
(***************************************************************************)

\* fmt.Sprintf("/api/%s/%s", connSlug, q.Slug)
PathKey(conn, q) == ApiMount \o <<"/">> \o Slugify(conn.Name) \o <<"/">> \o q.Slug

\* the loop over q.AllowedConnectionIDs
AllowedFor(q, conn) == \E id \in q.AllowedConnectionIDs : id = conn.ID

\* re.MatchString(q.SQLText), with the executor's pagination pattern
MatchString(text) == FindPagination(text) # 0

\* the keys of the properties map built for q
PropertiesOf(q) ==
    LET IsSystem(param) == ToLower(param) = PaginationWord
        Listed(names) == {names[i] : i \in {j \in DOMAIN names : ~IsSystem(names[j])}}
        hasPagination(names) == MatchString(q.SQLText)
                                   \/ \E i \in DOMAIN names : IsSystem(names[i])
        Props(names) == Listed(names)
                           \cup (IF hasPagination(names) THEN {PageName, LimitName} ELSE {})
    IN  Props(Parse(q.SQLText, EmptyMap).ParamNames)

\* the paths map after the two loops: for each key, the properties of the
\* operation written to it last
BuildPaths(connections, queries) ==
    LET Writes == {w \in (DOMAIN connections) \X (DOMAIN queries) :
                      /\ connections[w[1]].IsActive
                      /\ AllowedFor(queries[w[2]], connections[w[1]])}
        KeyOf(w) == PathKey(connections[w[1]], queries[w[2]])
        Later(v, w) == v[1] > w[1] \/ (v[1] = w[1] /\ v[2] >= w[2])
        Last(k) == CHOOSE w \in Writes : KeyOf(w) = k /\ \A v \in Writes : KeyOf(v) = k => Later(w, v)
    IN  [k \in {KeyOf(w) : w \in Writes} |-> PropertiesOf(queries[Last(k)[2]])]

\* connection names: two of them slugify to the same text
DocConnNames == {<<"m">>, <<"M", " ", "d">>, <<"m", "-", "d">>}

\* table connections: names are unique
DocConnections ==
    {<<[ID |-> 1, Name |-> n1, IsActive |-> a1], [ID |-> 2, Name |-> n2, IsActive |-> a2]>> :
        <<n1, n2, a1, a2>> \in {t \in DocConnNames \X DocConnNames \X BOOLEAN \X BOOLEAN :
                                   t[1] # t[2]}}

DocTexts ==
    { BareToken,
      <<"{">> \o PaginationWord \o <<":", "2", ":", "5", "}">>,
      <<"{">> \o PaginationWord \o <<":", "5", "}">>,
      <<"{", " ", "P">> \o Tail(PaginationWord) \o <<" ", "}">>,
      <<"{", "a", "}">>,
      <<"{", "a", "}", " ">> \o BareToken,
      <<"S">> }

\* tables queries and query_connections: slugs are unique; connection 3
\* has been deleted
DocQueries ==
    {<<[ID |-> 1, Slug |-> <<"q">>, SQLText |-> t, IsActive |-> a, AllowedConnectionIDs |-> ids1],
       [ID |-> 2, Slug |-> <<"r">>, SQLText |-> <<"{", "a", "}">>, IsActive |-> TRUE,
        AllowedConnectionIDs |-> ids2]>> :
        <<t, a, ids1, ids2>> \in DocTexts \X BOOLEAN \X (SUBSET {1, 2}) \X {{}, {1}, {2, 3}}}

DocInit ==
    /\ now = 0
    /\ ParserIdle
    /\ KeysIdle
    /\ LimiterIdle
    /\ ExecIdle
    /\ CryptIdle
    /\ SlugIdle
    /\ ConcurrentIdle
    /\ docCall \in {[NoDoc EXCEPT !.pc = "start", !.conns = cs, !.queries = qs] :
                       cs \in DocConnections, qs \in DocQueries}

outsideDoc == <<now, parserVars, keyVars, limiterVars, execVars, crypt, slugCall, creates, setup, mu>>

\* GET /api/docs/openapi.json; either catalog read can fail
GetOpenAPISpec ==
    /\ docCall.pc = "start"
    /\ \E failed \in BOOLEAN :
          IF failed
          THEN docCall' = [docCall EXCEPT !.pc = "done", !.status = 500]
          ELSE \E paths \in {BuildPaths(docCall.conns, docCall.queries)} :
                  docCall' = [docCall EXCEPT !.pc = "done", !.status = 200, !.paths = paths]
    /\ UNCHANGED outsideDoc

DocNext == GetOpenAPISpec

SpecDoc == DocInit /\ [][DocNext]_vars

\* the document has been written
Documented == docCall.pc = "done" /\ docCall.status = 200

\* the (connection, query) pairs the catalog allows
LegalPairs ==
    {w \in (DOMAIN docCall.conns) \X (DOMAIN docCall.queries) :
        /\ docCall.conns[w[1]].IsActive
        /\ docCall.conns[w[1]].ID \in docCall.queries[w[2]].AllowedConnectionIDs}

\* the query a path of the document ends in
QueryAt(k) == CHOOSE j \in DOMAIN docCall.queries :
                 \E i \in DOMAIN docCall.conns : PathKey(docCall.conns[i], docCall.queries[j]) = k

\* the executor finds a pagination token in the text
TokenIn(text) == FindPagination(text) # 0

\* C18: for any catalog state, the set of paths of the generated OpenAPI
\* document is exactly { /api/slug(c.name)/q.slug : c active and c.id in
\* allowed_connection_ids(q) }; 'pagination' is never listed as a body
\* property, and _page/_limit are listed exactly when the query's SQL
\* contains a pagination token
C18_DocumentedPaths ==
    Documented =>
        /\ DOMAIN docCall.paths
              = {PathKey(docCall.conns[w[1]], docCall.queries[w[2]]) : w \in LegalPairs}
        /\ \A k \in DOMAIN docCall.paths :
              /\ \A prop \in docCall.paths[k] : ToLower(prop) # PaginationWord
              /\ {PageName, LimitName} \subseteq docCall.paths[k]
                    <=> TokenIn(docCall.queries[QueryAt(k)].SQLText)
              /\ (PageName \in docCall.paths[k] \/ LimitName \in docCall.paths[k])
                    <=> TokenIn(docCall.queries[QueryAt(k)].SQLText)

(***************************************************************************)
(* The status the execution endpoint answers with                          *)
(***************************************************************************)

\* the statuses the error table allows for what the executor returned
StatusFor(err) ==
    CASE err = NoErr -> {200}
      [] err.kind \in {"connection not found", "query not found", "connection is inactive"}
            -> {400, 404}
      [] err.kind = "missing parameters" -> {400}
      [] err.kind \in {"execution error", "execution error: context canceled",
                       "sql: Rows are closed", "sql: Scan error", "context canceled"} -> {400}
      [] err.kind = "failed to decrypt connection string" -> {500}
      [] err.kind \in {"failed to open database connection", "failed to ping database",
                       "failed to ping database: context canceled"} -> {502}
      [] OTHER -> {}

\* C19: POST /api/{connectionName}/{querySlug} answers a failed execution
\* with the status mapped from the error kind (not found or inactive 400 or
\* 404, missing parameters 400, execution failure 400, decryption failure
\* 500, connect or ping failure 502) and a successful execution with 200
C19_StatusByErrorKind ==
    epc = "done" /\ req.kind = "api" /\ call.via # "none"
        => resp.status \in StatusFor(call.err)

(***************************************************************************)
(* Cancellation of the request context                                     *)
(***************************************************************************)

\* what err.Error() reads after a cancellation
CancellationMessages == {"failed to ping database: context canceled",
                         "execution error: context canceled", "context canceled"}

\* C20: if the request context is cancelled while a database operation of
\* ExecuteSQL is in flight (ping, query execution or row iteration), the
\* execution does not return a successful result: it ends with an error and
\* its audit row has status ERROR with the cancellation message
C20_CancelledNeverSucceeds ==
    (call.entered /\ call.ctxDone # "" /\ epc \in {"returned", "done"}) =>
        /\ ~call.result.present
        /\ call.err.kind \in CancellationMessages
        /\ LastAudit.status = "ERROR"
        /\ LastAudit.error_message = call.err

(***************************************************************************)
(* A burst of execution calls made with one API key the limiter has not    *)
(* seen                                                                    *)
(***************************************************************************)

\* (rate in tenths per minute, burst): the api limiter (60, 10), the same
\* rate with burst 1, and a slow limiter (0.1, 2) whose refill time is ten
\* minutes
BurstConfigs == {<<600, 10>>, <<600, 1>>, <<1, 2>>}

\* the calls of a burst: valid key, a connection and a query that exist.
\* Connection n fails at sql.Open; connection m answers or fails at any
\* later step, and is called in the short bursts only
BurstRequests(b) ==
    {[NoReq EXCEPT !.kind = "api", !.method = "POST", !.path = PathOf(<<c, <<"q">> >>),
                   !.apiKey = "k1", !.params = MapSet(EmptyMap, <<"a">>, NumV(1))] :
        c \in IF b > 2 THEN {<<"n">>} ELSE {<<"n">>, <<"m">>}}

BurstInit ==
    /\ now = 0
    /\ ParserIdle
    /\ LibIdle
    /\ apiKeys = SeedKeys
    /\ generated = MapSet(MapSet([k \in {} |-> NoRow], "k1", [SeedKey("k1") EXCEPT !.id = 1]),
                          "k2", [SeedKey("k2") EXCEPT !.id = 2])
    /\ revokedIds = {2}
    /\ lastOp = [op |-> "revoke", key |-> "", id |-> 2, err |-> "", rec |-> NoRow]
    /\ \E c \in BurstConfigs : rate = c[1] /\ burst = c[2]
    /\ buckets = NoBuckets
    /\ nextCleanup = CleanupEvery
    /\ advances = 0
    /\ lastAllow = NoAllow
    /\ window = [open |-> TRUE, key |-> "k1", start |-> 0, count |-> 0]
    /\ epc = "idle"
    /\ req = NoReq
    /\ call = NoCall
    /\ resp = NoResp
    /\ auditLogs = <<>>
    /\ prunes = 0
    /\ served = 0

\* the next call of the burst arrives: burst + 1 calls in all
BurstReceive ==
    /\ epc \in {"idle", "done"}
    /\ served < burst + 1
    /\ \E r \in BurstRequests(burst) :
          /\ req' = [r EXCEPT !.auditBefore = Len(auditLogs)]
          /\ epc' = "MiddlewareByAPIKey"
    /\ served' = served + 1
    /\ call' = NoCall
    /\ resp' = NoResp
    /\ UNCHANGED <<now, apiKeys, lastOp, buckets, lastAllow, auditLogs, prunes, outsideExec>>

\* time passes, the whole burst staying inside one token's refill time
BurstTick ==
    /\ now < MaxNow
    /\ (now + 1) * rate < TokenScale
    /\ epc \in {"idle", "done", "Query"}
    /\ now' = now + 1
    /\ UNCHANGED <<apiKeys, lastOp, buckets, lastAllow, epc, req, call, resp, auditLogs,
                   prunes, served, outsideExec>>

BurstNext ==
    \/ BurstReceive \/ MiddlewareByAPIKey \/ AuthMiddleware \/ Routes
    \/ ExecuteByName \/ Execute
    \/ GetConnection \/ DecryptConnectionString \/ Paginate \/ PaginateAgain
    \/ BindParameters \/ OpenDB \/ CancelContext
    \/ Ping \/ Query \/ Columns \/ ScanRows \/ Deferred \/ Respond
    \/ AuditPrune \/ BurstTick

SpecBurst == BurstInit /\ [][BurstNext]_vars

\* the calls of the burst that have passed the limiter's decision
Decided == IF epc = "MiddlewareByAPIKey" THEN served - 1 ELSE served

ToExecutionEndpoint == req.kind = "api" /\ RouteOf(req.method, req.path) = "ExecuteQuery"

\* the key of the request has been verified
Authenticated == req.ctxApiKeyID # 0

\* C22: a request to the execution endpoint passes API-key authentication,
\* then the rate limiter, then the executor, and reaches a stage only if
\* every earlier stage admitted it; a request rejected by authentication
\* does not reach the rate limiter
C22_AuthThenLimiterThenExecutor ==
    [][ToExecutionEndpoint =>
          /\ (epc = "MiddlewareByAPIKey" /\ epc' # epc) => Authenticated
          /\ (epc' = "ExecuteByName" /\ epc # epc') => Authenticated /\ lastAllow.ok
          /\ (epc' = "done" /\ resp'.status = 401 /\ req.apiKey # "")
                => req.apiKey \notin DOMAIN buckets'
       ]_vars

(***************************************************************************)
(* Which brace groups Parse rewrites                                       *)
(***************************************************************************)

\* [A-Za-z0-9_]+
IsName(t) ==
    /\ t # <<>>
    /\ \A i \in 1..Len(t) :
          \/ IsLower(t[i]) \/ IsDigit(t[i]) \/ t[i] = "_"
          \/ \E u \in DOMAIN UpperLetters : UpperLetters[u] = t[i]

\* the brace groups of the statement whose name is well formed
NamedGroups == {k \in 1..Len(FindAll(sqlText)) : IsName(PlaceholderName(sqlText, k))}

\* the part of a parameter name before the index Parse appends to it
BaseName(name) == IF Contains(name, ":") THEN SplitN2(name, ":")[1] ELSE name

\* C23: Parse rewrites a brace group only when it has the form {name} or
\* {name:default} with name matching [A-Za-z0-9_]+ (surrounding whitespace
\* trimmed); any other brace-delimited text is left unchanged and
\* contributes nothing to ParamNames or Defaults
C23_OnlyNamedGroupsRewritten ==
    ppc \in {"parsed", "bound"} =>
        /\ \A i \in 1..Len(parseResult.ParamNames) : IsName(BaseName(parseResult.ParamNames[i]))
        /\ \A name \in DOMAIN parseResult.Defaults : IsName(name)
        /\ NamedGroups = {} => parseResult.SQL = sqlText

(***************************************************************************)
(* What one Allow call does to the bucket map                              *)
(***************************************************************************)

\* a step of the limiter made by an Allow call
AllowStep ==
    /\ buckets' # buckets \/ lastAllow' # lastAllow
    /\ nextCleanup' = nextCleanup

\* the tokens of bucket bk at the current time, before any is taken
Refilled(bk) ==
    LET grown == bk.tokens + (now - bk.lastCheck) * rate
    IN  IF grown > burst * TokenScale THEN burst * TokenScale ELSE grown

\* C24: Allow(key) on an unseen key creates a bucket with burst-1 tokens and
\* last = now and admits; on a known key it refills by (now - last) * rate
\* capped at burst and sets last = now, then admits and takes exactly one
\* token if and only if tokens >= 1, and on denial leaves the refilled
\* count; Allow(key) never changes the bucket of any other key
C24_AllowStep ==
    [][AllowStep =>
          LET key == lastAllow'.key
          IN  /\ DOMAIN buckets' = DOMAIN buckets \cup {key}
              /\ \A other \in DOMAIN buckets \ {key} : buckets'[other] = buckets[other]
              /\ buckets'[key].lastCheck = now
              /\ key \notin DOMAIN buckets =>
                    /\ lastAllow'.ok
                    /\ buckets'[key].tokens = (burst - 1) * TokenScale
              /\ key \in DOMAIN buckets =>
                    /\ lastAllow'.ok <=> Refilled(buckets[key]) >= TokenScale
                    /\ buckets'[key].tokens =
                          IF lastAllow'.ok THEN Refilled(buckets[key]) - TokenScale
                          ELSE Refilled(buckets[key])
       ]_vars

\* a denied call one second after the bucket of the slow limiter ran empty:
\* the bucket keeps the one unit refilled, next to another key's bucket
C24_Witness ==
    /\ rate = 1 /\ burst = 3
    /\ lastAllow = [key |-> "k1", ok |-> FALSE]
    /\ now = 1
    /\ "k1" \in DOMAIN buckets /\ buckets["k1"] = [tokens |-> 1, lastCheck |-> 1]
    /\ "ip" \in DOMAIN buckets

(***************************************************************************)
(* What one pass of the sweeper does to the bucket map                     *)
(***************************************************************************)

\* a step of the limiter made by the cleanup goroutine
SweepStep == nextCleanup' # nextCleanup

\* the buckets idle for more than ten minutes
Stale == {k \in DOMAIN buckets : now - buckets[k].lastCheck > StaleAfter}

\* C25: each run of the sweeper removes exactly the buckets whose last check
\* is more than 10 minutes before the sweep time: right after it no bucket
\* with now - last > 10 minutes remains, and no bucket with now - last <= 10
\* minutes has been removed or modified
C25_SweepRemovesExactlyStale ==
    [][SweepStep =>
          /\ DOMAIN buckets' = DOMAIN buckets \ Stale
          /\ \A k \in DOMAIN buckets' : buckets'[k] = buckets[k]
          /\ \A k \in DOMAIN buckets' : now - buckets'[k].lastCheck <= StaleAfter
       ]_vars

\* after a sweep at second 601: the bucket of k1, last checked at second 0,
\* is gone, and the bucket of ip, idle for exactly ten minutes, stands
C25_Witness ==
    /\ now = 601
    /\ nextCleanup > CleanupEvery
    /\ window.open /\ window.start = 0 /\ window.count >= 1
    /\ "k1" \notin DOMAIN buckets
    /\ "ip" \in DOMAIN buckets /\ buckets["ip"].lastCheck = 1

(***************************************************************************)
(* The order of the steps of one ExecuteSQL call                           *)
(***************************************************************************)

\* the place of each step in the stated order: connection lookup,
\* decryption, pagination rewrite, parse and bind, open, ping, query, row
\* mapping (columns, then rows), audit.  Both calls of
\* processSystemVariables are the pagination rewrite.
StepRank ==
    [s \in InExecuteSQL |->
        CASE s = "GetByID" -> 1 [] s = "Decrypt" -> 2
          [] s \in {"Paginate", "PaginateAgain"} -> 3
          [] s = "Bind" -> 4 [] s = "Open" -> 5 [] s = "Ping" -> 6 [] s = "Query" -> 7
          [] s = "Columns" -> 8 [] s = "Rows" -> 9 [] s = "deferred" -> 10]

\* C26: within one ExecuteSQL call the steps run strictly in the order
\* connection lookup, decryption, pagination rewrite, parameter parse and
\* bind, driver open, ping, query, row mapping, audit; the first failing
\* step ends the call (no later step other than the audit runs, so no
\* handle is opened after a lookup, decryption or binding failure) and no
\* step is ever executed more than once or retried
C26_StepsInOrderOnce ==
    [][(epc \in InExecuteSQL /\ epc' # epc) =>
          /\ epc' \in InExecuteSQL => StepRank[epc'] > StepRank[epc]
          /\ (epc # "deferred" /\ call'.err # NoErr) => epc' = "deferred"
          /\ epc = "deferred" => epc' = "returned"
          /\ (call'.opened /\ ~call.opened) => call.err = NoErr /\ epc = "Open"
       ]_vars

(***************************************************************************)
(* AuditRepo.Create called from several goroutines                         *)
(***************************************************************************)

MaxCreates == 3

\* the rows the calls insert: one of a success, one of a failure
CreateLogs ==
    {[AuditLogOf([NoCall EXCEPT !.connectionID = 2, !.err = e], 1, 0) EXCEPT !.user_id = 0] :
        e \in {NoErr, Err("connection is inactive")}}

\* the table after n earlier executions whose prunes have run
StoredLogs(n) ==
    [i \in 1..n |-> [AuditLogOf([NoCall EXCEPT !.connectionID = 2], 1, 0) EXCEPT !.id = i]]

AuditInit ==
    /\ now = 0
    /\ ParserIdle
    /\ KeysIdle
    /\ LimiterIdle
    /\ CryptIdle /\ SlugIdle /\ DocIdle
    /\ setup = NoSetup
    /\ mu = NoMutex
    /\ epc = "off"
    /\ req = NoReq
    /\ call = NoCall
    /\ resp = NoResp
    /\ served = 0
    /\ \E n \in {AuditRetention - 1, AuditRetention} : auditLogs = StoredLogs(n)
    /\ prunes = 0
    /\ creates \in {[i \in 1..MaxCreates |-> [pc |-> "INSERT", l |-> l]] : l \in CreateLogs}

outsideAudit == <<now, parserVars, keyVars, limiterVars, epc, req, call, resp, served,
                  crypt, slugCall, docCall, setup, mu>>

\* AuditRepo.Create, the INSERT statement and l.ID = id; the call returns
\* the error when the statement fails
CreateInsert(i) ==
    /\ creates[i].pc = "INSERT"
    /\ \E rows \in {AuditCreate(auditLogs, creates[i].l)} :
          /\ auditLogs' = rows
          /\ IF rows = auditLogs
             THEN creates' = [creates EXCEPT ![i].pc = "returned"]
             ELSE creates' = [creates EXCEPT ![i].pc = "go", ![i].l.id = rows[Len(rows)].id]
    /\ UNCHANGED <<prunes, outsideAudit>>

\* AuditRepo.Create, go func() { ... }() and return nil: the prune is
\* started and runs whenever the scheduler lets it
CreateGo(i) ==
    /\ creates[i].pc = "go"
    /\ prunes' = prunes + 1
    /\ creates' = [creates EXCEPT ![i].pc = "returned"]
    /\ UNCHANGED <<auditLogs, outsideAudit>>

AuditNext ==
    \/ \E i \in 1..MaxCreates : CreateInsert(i)
    \/ \E i \in 1..MaxCreates : CreateGo(i)
    \/ AuditPrune

SpecAudit == AuditInit /\ [][AuditNext]_vars

\* every row inserted has had its prune started, and every prune has run
Settled == prunes = 0 /\ \A i \in DOMAIN creates : creates[i].pc # "go"

\* C27: under any interleaving of concurrent audit inserts and their
\* background prunes, once every insert and every prune started by an
\* insert has completed the table holds at most 1000 rows, and they are the
\* rows with the highest ids; it holds more than 1000 rows only while some
\* prune is still pending
C27_PrunedWhenSettled ==
    /\ DOMAIN creates # {} /\ Settled => Len(auditLogs) <= AuditRetention
    /\ DOMAIN creates # {} =>
          /\ \A k \in 1..(Len(auditLogs) - 1) : auditLogs[k + 1].id = auditLogs[k].id + 1
          /\ \A i \in DOMAIN creates :
                creates[i].pc # "INSERT" => creates[i].l.id <= auditLogs[Len(auditLogs)].id

C27_Witness ==
    /\ DOMAIN creates # {}
    /\ \A i \in DOMAIN creates : creates[i].pc = "returned"
    /\ prunes = 0
    /\ Len(auditLogs) = AuditRetention
    /\ auditLogs[1].id > 1

(***************************************************************************)
(* RateLimiter.Allow and cleanupLoop as goroutines sharing rl.mu           *)
(***************************************************************************)

MaxAllows == 2

\* api.NewRateLimiter(60, 10)
ApiLimiter == <<600, 10>>

\* the sweeper is the goroutine after the last Allow call
Sweeper == MaxAllows + 1

\* the bucket map the calls find: empty, or one bucket of k1 last used at 0
MutexBuckets ==
    {NoBuckets} \cup {MapSet(NoBuckets, "k1", [tokens |-> n * TokenScale, lastCheck |-> 0]) :
                        n \in 0..2}

\* a goroutine about to call rl.mu.Lock()
Goroutine(op, key) ==
    [op |-> op, key |-> key, pc |-> "Lock", t |-> 0, snap |-> NoBuckets, ok |-> FALSE]

MutexInit ==
    /\ now \in {0, StaleAfter + 1}
    /\ ParserIdle
    /\ KeysIdle
    /\ ExecIdle
    /\ CryptIdle /\ SlugIdle /\ DocIdle
    /\ creates = NoCreates
    /\ setup = NoSetup
    /\ rate = ApiLimiter[1] /\ burst = ApiLimiter[2]
    /\ buckets \in MutexBuckets
    /\ nextCleanup = CleanupEvery
    /\ advances = 0
    /\ lastAllow = NoAllow
    /\ window = NoWindow
    /\ \E keys \in [1..MaxAllows -> LimiterKeys] :
          /\ keys[1] = "k1"
          /\ mu = [holder |-> 0, ticks |-> 0, before |-> buckets,
                   g |-> [i \in 1..Sweeper |-> IF i = Sweeper THEN Goroutine("cleanup", "")
                                               ELSE Goroutine("Allow", keys[i])]]

outsideMutex == <<parserVars, keyVars, rate, burst, nextCleanup, advances, lastAllow, window,
                  execVars, crypt, slugCall, docCall, creates, setup>>

\* a goroutine that does not wait for the mutex
CanLockAlways(m, i) == TRUE

\* rl.mu.Lock() returns only while no goroutine holds the mutex
CanLock(m, i) == m.holder = 0

\* rl.mu.Lock()
MuLock(i) ==
    /\ mu.g[i].pc = "Lock"
    /\ CanLock(mu, i)
    /\ mu' = [mu EXCEPT !.holder = i,
                        !.g[i].pc = IF mu.g[i].op = "Allow" THEN "Load" ELSE "Sweep"]
    /\ UNCHANGED <<now, buckets, outsideMutex>>

\* Allow: now := time.Now(); b, exists := rl.buckets[key]
AllowLoad(i) ==
    /\ mu.g[i].pc = "Load"
    /\ mu' = [mu EXCEPT !.g[i].pc = "Store", !.g[i].t = now,
                        !.g[i].snap = [k \in DOMAIN buckets \cap {mu.g[i].key} |-> buckets[k]]]
    /\ UNCHANGED <<now, buckets, outsideMutex>>

\* Allow: the writes to the bucket of the key, and the answer
AllowStore(i) ==
    /\ mu.g[i].pc = "Store"
    /\ \E res \in {Allow(mu.g[i].snap, rate, burst, mu.g[i].key, mu.g[i].t)} :
          /\ buckets' = MapSet(buckets, mu.g[i].key, res.buckets[mu.g[i].key])
          /\ mu' = [mu EXCEPT !.g[i].pc = "Unlock", !.g[i].ok = res.ok]
    /\ UNCHANGED <<now, outsideMutex>>

\* cleanupLoop: the pass over rl.buckets
SweepLocked(i) ==
    /\ mu.g[i].pc = "Sweep"
    /\ buckets' = Cleanup(buckets, now)
    /\ mu' = [mu EXCEPT !.g[i].pc = "Unlock", !.g[i].t = now]
    /\ UNCHANGED <<now, outsideMutex>>

\* rl.mu.Unlock(), deferred in Allow
MuUnlock(i) ==
    /\ mu.g[i].pc = "Unlock"
    /\ mu' = [mu EXCEPT !.holder = 0, !.g[i].pc = "done"]
    /\ UNCHANGED <<now, buckets, outsideMutex>>

\* time passes while the goroutines run
MutexTick ==
    /\ mu.ticks < MaxNow
    /\ now' = now + 1
    /\ mu' = [mu EXCEPT !.ticks = mu.ticks + 1]
    /\ UNCHANGED <<buckets, outsideMutex>>

MutexNext ==
    \/ \E i \in 1..Sweeper : MuLock(i)
    \/ \E i \in 1..Sweeper : AllowLoad(i)
    \/ \E i \in 1..Sweeper : AllowStore(i)
    \/ \E i \in 1..Sweeper : SweepLocked(i)
    \/ \E i \in 1..Sweeper : MuUnlock(i)
    \/ MutexTick

SpecMutex == MutexInit /\ [][MutexNext]_vars

\* the goroutines between Lock and Unlock
InCritical == {i \in DOMAIN mu.g : mu.g[i].pc \in {"Load", "Store", "Sweep", "Unlock"}}

\* one call or pass run alone on the map bs
RunAlone(bs, i) ==
    IF mu.g[i].op = "Allow" THEN Allow(bs, rate, burst, mu.g[i].key, mu.g[i].t)
    ELSE [ok |-> FALSE, buckets |-> Cleanup(bs, mu.g[i].t)]

RECURSIVE RunInOrder(_, _)
\* the map after the first k goroutines of the order p have run one by one
RunInOrder(p, k) ==
    IF k = 0 THEN mu.before ELSE RunAlone(RunInOrder(p, k - 1), p[k]).buckets

Orders == {p \in [DOMAIN mu.g -> DOMAIN mu.g] : \A i, j \in DOMAIN mu.g : p[i] = p[j] => i = j}

AllDone == DOMAIN mu.g # {} /\ \A i \in DOMAIN mu.g : mu.g[i].pc = "done"

\* no time passed since the bucket of k1 was last used
NoTimeElapsed ==
    /\ "k1" \in DOMAIN mu.before
    /\ \A i \in DOMAIN mu.g : mu.g[i].t = mu.before["k1"].lastCheck

\* C28: Allow calls and sweeper passes exclude each other on the bucket
\* map; for any interleaving the outcome (the map and every answer) is that
\* of the same calls run one after the other in some order; concurrent
\* calls on a bucket holding fewer than 2 tokens, with no time elapsing,
\* admit at most one
C28_AllowSerialized ==
    /\ Cardinality(InCritical) <= 1
    /\ AllDone =>
          \E p \in Orders :
             /\ RunInOrder(p, Sweeper) = buckets
             /\ \A k \in 1..Sweeper :
                   mu.g[p[k]].op = "Allow" =>
                      mu.g[p[k]].ok = RunAlone(RunInOrder(p, k - 1), p[k]).ok
    /\ (AllDone /\ NoTimeElapsed /\ mu.before["k1"].tokens < 2 * TokenScale) =>
          Cardinality({i \in DOMAIN mu.g : mu.g[i].key = "k1" /\ mu.g[i].ok}) <= 1

\* two calls on k1 found one token and no time passed: one was admitted,
\* the other denied
C28_Witness ==
    /\ AllDone /\ NoTimeElapsed
    /\ mu.before["k1"].tokens = TokenScale
    /\ \E i, j \in DOMAIN mu.g :
          /\ i # j /\ mu.g[i].key = "k1" /\ mu.g[j].key = "k1"
          /\ mu.g[i].ok /\ ~mu.g[j].ok /\ mu.g[j].op = "Allow"
    /\ buckets["k1"].tokens = 0

(***************************************************************************)
(* The range of a bucket's tokens                                          *)
(***************************************************************************)

\* C29: for a limiter created with burst >= 1 and a non-negative rate, after
\* any sequence of Allow calls and sweeper passes with non-decreasing time,
\* every bucket in the map holds 0 <= tokens <= burst
C29_TokensInRange ==
    (burst >= 1 /\ rate >= 0) =>
       \A k \in DOMAIN buckets :
          0 <= buckets[k].tokens /\ buckets[k].tokens <= burst * TokenScale

\* after a sweeper pass one bucket is empty and was just denied, another
\* was just created with burst - 1 tokens
C29_Witness ==
    /\ burst >= 1
    /\ nextCleanup > CleanupEvery
    /\ lastAllow.key \in DOMAIN buckets /\ ~lastAllow.ok /\ buckets[lastAllow.key].tokens = 0
    /\ \E k \in DOMAIN buckets :
          buckets[k].tokens = (burst - 1) * TokenScale /\ buckets[k].lastCheck = now

(***************************************************************************)
(* AuthService.SetupAdmin called from several requests at once             *)
(***************************************************************************)

MaxSetups == 3

\* the form values of call i: a username of its own, and a password
SetupName(i) == <<"u", Digits[i + 1]>>

\* a short password, and one of 73 bytes
SetupPasswords == {<<"p">>, [i \in 1..73 |-> "p"]}

\* bcrypt.GenerateFromPassword: passwords longer than 72 bytes are refused
GenerateFromPassword(password) ==
    IF Len(password) > 72 THEN [hash |-> <<>>, err |-> "bcrypt: password length exceeds 72 bytes"]
    ELSE [hash |-> <<"$">> \o password, err |-> ""]

\* UserRepo.CountUsers: SELECT COUNT(*) FROM users
CountUsers(users) == Len(users)

\* UserRepo.CreateUser: INSERT INTO users; username is UNIQUE, id is
\* AUTOINCREMENT
CreateUser(users, username, passwordHash) ==
    IF \E k \in 1..Len(users) : users[k].username = username
    THEN [users |-> users, err |-> "UNIQUE constraint failed: users.username"]
    ELSE [users |-> Append(users, [id |-> Len(users) + 1, username |-> username,
                                   password_hash |-> passwordHash, is_active |-> TRUE]),
          err |-> ""]

SetupInit ==
    /\ now = 0
    /\ ParserIdle
    /\ KeysIdle
    /\ LimiterIdle
    /\ ExecIdle
    /\ CryptIdle /\ SlugIdle /\ DocIdle
    /\ creates = NoCreates
    /\ mu = NoMutex
    /\ \E users \in {<<>>, CreateUser(<<>>, <<"a">>, <<"$", "p">>).users},
          pw \in [1..MaxSetups -> SetupPasswords] :
          setup = [users |-> users,
                   calls |-> [i \in 1..MaxSetups |->
                                [pc |-> "CountUsers", username |-> SetupName(i),
                                 password |-> pw[i], count |-> 0, hash |-> <<>>, err |-> "",
                                 created |-> FALSE]]]

outsideSetup == <<now, parserVars, keyVars, limiterVars, execVars, crypt, slugCall, docCall,
                  creates, mu>>

\* SetupAdmin: count, err := s.userRepo.CountUsers(); if count > 0 { return ... }
SetupCount(i) ==
    /\ setup.calls[i].pc = "CountUsers"
    /\ \E count \in {CountUsers(setup.users)} :
          setup' = [setup EXCEPT !.calls[i].count = count,
                                 !.calls[i].pc = IF count > 0 THEN "done" ELSE "bcrypt",
                                 !.calls[i].err = IF count > 0 THEN "setup already completed"
                                                  ELSE ""]
    /\ UNCHANGED outsideSetup

\* SetupAdmin: hashedPassword, err := bcrypt.GenerateFromPassword(...)
SetupHash(i) ==
    /\ setup.calls[i].pc = "bcrypt"
    /\ \E h \in {GenerateFromPassword(setup.calls[i].password)} :
          setup' = [setup EXCEPT !.calls[i].hash = h.hash, !.calls[i].err = h.err,
                                 !.calls[i].pc = IF h.err # "" THEN "done" ELSE "CreateUser"]
    /\ UNCHANGED outsideSetup

\* SetupAdmin: _, err = s.userRepo.CreateUser(username, string(hashedPassword))
SetupCreate(i) ==
    /\ setup.calls[i].pc = "CreateUser"
    /\ \E r \in {CreateUser(setup.users, setup.calls[i].username, setup.calls[i].hash)} :
          setup' = [setup EXCEPT !.users = r.users, !.calls[i].err = r.err,
                                 !.calls[i].created = (r.err = ""),
                                 !.calls[i].pc = "done"]
    /\ UNCHANGED outsideSetup

SetupNext ==
    \/ \E i \in 1..MaxSetups : SetupCount(i)
    \/ \E i \in 1..MaxSetups : SetupHash(i)
    \/ \E i \in 1..MaxSetups : SetupCreate(i)

SpecSetup == SetupInit /\ [][SetupNext]_vars

\* C30: across any interleaving of concurrent SetupAdmin calls with
\* distinct usernames at most one of them creates a user; a call made once
\* a user exists fails with "setup already completed" and leaves the table
\* users unchanged
C30_AtMostOneAdmin ==
    /\ Cardinality({i \in DOMAIN setup.calls : setup.calls[i].created}) <= 1
    /\ \A i \in DOMAIN setup.calls :
          (setup.calls[i].pc = "done" /\ setup.calls[i].count > 0) =>
             setup.calls[i].err = "setup already completed" /\ ~setup.calls[i].created

====
